---- MODULE Spec2Model ----
(***************************************************************************)
(* Workflow orchestration engine of the Personal AI Employee System:       *)
(* the vault directories as a file-backed task state machine, the HITL     *)
(* classifier, the Task Processor scan and the Approval Handler, the       *)
(* Watchdog that supervises the watchers, and the multi-step task runner.  *)
(*                                                                         *)
(* A file name is a sequence of tokens; the tokens are the parts that the  *)
(* code joins with "_" (timestamp, marker, title words), the ".md" suffix  *)
(* is common to every name and left out.  A directory is a function from   *)
(* the names present in it to file contents.                               *)
(*                                                                         *)
(* The specifications share the state: Spec is the single-task flow,       *)
(* WatchdogSpec the Watchdog with its watchers, RalphSpec the multi-step   *)
(* task runner, SchedulerSpec the Scheduler with its loop thread,          *)
(* ClassifySpec a call of the HITL classifier on a text and a metadata    *)
(* map, IntakeSpec the Task Processor on task files of any origin,         *)
(* OrchestratorSpec the lifecycle of the Orchestrator from main(),         *)
(* ApprovalSpec process_approvals statement by statement, StepApprovalSpec *)
(* the multi-step runner next to the Approval Handler, WriteRaceSpec the   *)
(* scan next to a watcher's write in flight, CrashSpec the multi-step      *)
(* runner with a process that dies in a call.                              *)
(***************************************************************************)
EXTENDS Naturals, Integers, Sequences, FiniteSets, Bags, TLC

\* ---------------------------------------------------------------- bounds
\* datetime.now() is observed with one-second resolution, 0..MaxClock
MaxClock == 1
\* number of task files the watchers create
MaxTasks == 2
\* number of I/O errors the file system raises
MaxFaults == 1
\* number of health checks the Watchdog's monitor loop makes
MaxChecks == 5
\* number of times a watcher's own loop ends
MaxStops == 1
\* number of multi-step tasks created
MaxMsTasks == 1
\* number of steps of a multi-step task
MaxSteps == 3
\* number of jobs given to the Scheduler
MaxJobs == 2
\* the Scheduler is observed during the seconds 0..MaxSchedClock
MaxSchedClock == 8

\* -------------------------------------------------------------- inputs
\* sanitized titles the watchers use
Titles == { <<"a">> }

\* "Read quarterly report"
ReadReport == [words |-> {"read", "report"}, amounts |-> <<>>]
\* "Pay $500 to CloudTech": the words, and the pieces of text that start
\* with "$", each as the sequence of its characters
Pay500 == [words |-> {"pay"}, amounts |-> << <<"$", "5", "0", "0">> >>]
TaskTexts == { ReadReport, Pay500 }

\* reasons passed to reject_task
Reasons == { "", "dup" }

\* ----------------------------------------------------- vault directories
NEEDS_ACTION == "Needs_Action"
PLANS == "Plans"
PENDING_APPROVAL == "Pending_Approval"
APPROVED == "Approved"
DONE == "Done"
Folders == { NEEDS_ACTION, PLANS, PENDING_APPROVAL, APPROVED, DONE }

VARIABLES
  vault,                \* [Folders -> directory]
  now,                  \* the wall clock, in seconds
  created,              \* number of task files created so far
  processed_approvals,  \* ApprovalHandler.processed_approvals
  audit,                \* the events given to log_action: a bag of events
  callbacks,            \* the calls of ApprovalHandler.on_approved: a bag
  human_approved,       \* ids of the tasks a human or approve_task approved
  faults,               \* number of I/O errors raised so far
  intake,               \* a file was written to Needs_Action since the last
                        \* Task Processor scan
  watchers,             \* the watcher objects: name -> [is_running, last_check]
  wd_is_running,        \* WatchdogMonitor.is_running
  _restart_counts,      \* WatchdogMonitor._restart_counts
  _last_errors,         \* WatchdogMonitor._last_errors
  checks,               \* number of health checks made so far
  stops,                \* number of times a watcher's loop ended by itself
  wd_trace,             \* per watcher: what the health checks found and did
  _tasks,               \* RalphWiggumLoop._tasks: task id -> MultiStepTask
  multistep,            \* the MultiStep folder: task id -> YAML document
  ms_created,           \* number of multi-step tasks created so far
  ms_high,              \* task id -> the largest current_step the task had
  ms_last,              \* the last call made on the runner and its outcome
  sc_tasks,             \* Scheduler.tasks: the list of ScheduledTask objects
  sc_is_running,        \* Scheduler.is_running
  sc_thread,            \* where the thread of Scheduler._run_loop is
  sc_stop,              \* where the caller of Scheduler.stop is
  sc_tick,              \* this tick: the calls of each job's callback, and
                        \* whether a callback raised
  cl_call,              \* the call of HITLClassifier.classify that was made
  orch,                 \* the process of main.py: its environment, the
                        \* settings object and the Orchestrator object
  writing,              \* the write_text calls that opened their file and
                        \* have not written it yet
  handling              \* where the call of process_approvals is, when its
                        \* steps are followed one by one

wf_vars == << created, processed_approvals, callbacks, human_approved,
              intake >>

wd_vars == << watchers, wd_is_running, _restart_counts, _last_errors,
              checks, stops, wd_trace >>

ms_vars == << _tasks, multistep, ms_created, ms_high, ms_last >>

sc_vars == << sc_tasks, sc_is_running, sc_thread, sc_stop, sc_tick >>

cl_vars == << cl_call >>

or_vars == << orch, writing, handling >>

vars == << vault, now, audit, faults, wf_vars, wd_vars, ms_vars, sc_vars,
          cl_vars, or_vars >>

\* ------------------------------------------------------------ directories
Range(s) == { s[i] : i \in DOMAIN s }

Files(v, d) == DOMAIN v[d]

Exists(v, d, n) == n \in DOMAIN v[d]

\* Path.write_text: creates the file or replaces its content
WriteText(v, d, n, c) ==
  [v EXCEPT ![d] = [x \in (DOMAIN v[d]) \cup {n} |->
                       IF x = n THEN c ELSE v[d][x]]]

Unlink(v, d, n) ==
  [v EXCEPT ![d] = [x \in (DOMAIN v[d]) \ {n} |-> v[d][x]]]

\* shutil.move of a file onto a file path: os.rename, which replaces an
\* existing destination file
ShutilMove(v, d1, n1, d2, n2) ==
  Unlink(WriteText(v, d2, n2, v[d1][n1]), d1, n1)

\* shutil.copy of a file onto a file path
ShutilCopy(v, d1, n1, d2, n2) == WriteText(v, d2, n2, v[d1][n1])

\* datetime.now().strftime("%Y%m%d_%H%M%S")
Strftime(t) == ToString(t)

\* ------------------------------------------------------------ file names
\* stem occurs in name as a run of tokens that starts at position i
OccursAt(name, stem, i) ==
  /\ i >= 1
  /\ i + Len(stem) - 1 <= Len(name)
  /\ \A k \in 1..Len(stem) : name[i + k - 1] = stem[k]

\* "_plan_" in name
HasPlanMarker(name) ==
  \E i \in 2..(Len(name) - 1) : name[i] = "plan"

\* glob("*_plan_*{stem}*.md")
PlanGlob(name, stem) ==
  \E i \in 2..(Len(name) - 1) :
     /\ name[i] = "plan"
     /\ \E j \in (i + 1)..Len(name) : OccursAt(name, stem, j)

PlanFiles(v, d, stem) == { n \in Files(v, d) : PlanGlob(n, stem) }

\* all orders in which a directory listing can return the set S
Orders(S) ==
  { s \in [1..Cardinality(S) -> S] : Range(s) = S }

\* ------------------------------------------------------- HITL classifier
\* the keywords that occur inside a word of the vocabulary (the code tests
\* `kw in content_lower`, a substring test)
KeywordsIn(w) ==
  CASE w = "payment" -> {"payment", "pay"}
    [] w = "profile" -> {"file"}
    [] w = "account" -> {"account"}
    [] OTHER -> {w}

\* kw in content_lower
In(kw, text) ==
  \/ \E w \in text.words : kw \in KeywordsIn(w)
  \/ kw = "$" /\ \E i \in DOMAIN text.amounts : "$" \in Range(text.amounts[i])

AnyIn(kws, text) == \E kw \in kws : In(kw, text)

\* HITLClassifier.SENSITIVE_KEYWORDS, in the order of the dict
Categories == << "payment", "financial", "personal", "legal", "medical" >>

SENSITIVE_KEYWORDS(category) ==
  CASE category = "payment" ->
         {"payment", "pay", "transfer", "wire", "invoice", "bill", "charge"}
    [] category = "financial" ->
         {"bank", "credit card", "account", "money", "dollar", "$", "cost"}
    [] category = "personal" ->
         {"password", "ssn", "social security", "confidential", "private"}
    [] category = "legal" ->
         {"contract", "agreement", "legal", "lawsuit", "attorney"}
    [] category = "medical" ->
         {"medical", "health", "doctor", "prescription", "diagnosis"}

\* the metadata of a task without a readable header
NoMetadata == [py |-> "dict", source |-> "", to |-> "", from |-> ""]

\* None, as the value of a key of the metadata (YAML "source:" or "source: ~")
PyNone == "<None>"

\* HITLClassifier known_contacts of the default classifier
known_contacts == {}

_detect_action_type(content, metadata) ==
  IF metadata.source \in {"gmail", "email"}
  THEN IF In("reply", content) \/ In("respond", content) THEN "reply_email"
       ELSE IF In("send", content) \/ In("compose", content) THEN "send_email"
       ELSE "information"
  ELSE IF In("delete", content) \/ In("remove", content) THEN "delete_file"
  ELSE IF In("create", content) \/ In("write", content) THEN "create_file"
  ELSE IF AnyIn({"pay", "payment", "transfer", "invoice"}, content)
       THEN "payment"
  ELSE IF AnyIn({"post", "tweet", "linkedin", "facebook"}, content)
       THEN IF In("reply", content) \/ In("comment", content)
            THEN "social_reply" ELSE "social_post"
  ELSE IF AnyIn({"schedule", "calendar", "meeting", "appointment"}, content)
       THEN "schedule"
  ELSE IF AnyIn({"archive", "organize", "file", "categorize"}, content)
       THEN "archive"
  ELSE "unknown"

\* str.isdigit of one character
IsDigit(c) == c \in { "0", "1", "2", "3", "4", "5", "6", "7", "8", "9" }

DigitValue(c) == CHOOSE n \in 0..9 : ToString(n) = c

\* \d at position i of s
DigitAt(s, i) == i \in DOMAIN s /\ IsDigit(s[i])

\* \s* from position i: the position of the first character that is no space
RECURSIVE SkipSpaces(_, _)
SkipSpaces(s, i) ==
  IF i \in DOMAIN s /\ s[i] = " " THEN SkipSpaces(s, i + 1) ELSE i

\* \d+ from position i (greedy): the position after the last digit
RECURSIVE DigitsEnd(_, _)
DigitsEnd(s, i) == IF DigitAt(s, i) THEN DigitsEnd(s, i + 1) ELSE i

\* (?:,\d{3})* from position i (greedy): the position after the last group
RECURSIVE GroupsEnd(_, _)
GroupsEnd(s, i) ==
  IF /\ i \in DOMAIN s /\ s[i] = ","
     /\ DigitAt(s, i + 1) /\ DigitAt(s, i + 2) /\ DigitAt(s, i + 3)
  THEN GroupsEnd(s, i + 4)
  ELSE i

\* float of the digits of s[i..j-1] with the "," removed, times 100
RECURSIVE Dollars(_, _, _, _)
Dollars(s, i, j, acc) ==
  IF i >= j THEN acc * 100
  ELSE Dollars(s, i + 1, j,
               IF IsDigit(s[i]) THEN acc * 10 + DigitValue(s[i]) ELSE acc)

\* AMOUNT_PATTERN \$\s*(\d+(?:,\d{3})*(?:\.\d{2})?) searched in the piece
\* s: the amounts found (none or one), in cents
Match(s) ==
  IF "$" \notin Range(s) THEN <<>>
  ELSE
    LET p == CHOOSE i \in DOMAIN s :
               s[i] = "$" /\ \A k \in 1..(i - 1) : s[k] # "$"
        q == SkipSpaces(s, p + 1)
        e == GroupsEnd(s, DigitsEnd(s, q))
        frac == /\ e \in DOMAIN s /\ s[e] = "."
                /\ DigitAt(s, e + 1) /\ DigitAt(s, e + 2)
    IN  IF ~DigitAt(s, q) THEN <<>>
        ELSE << Dollars(s, q, e, 0)
                + (IF frac
                   THEN 10 * DigitValue(s[e + 1]) + DigitValue(s[e + 2])
                   ELSE 0) >>

\* HITLClassifier._extract_amounts: the matches of all pieces, in order
RECURSIVE ExtractFrom(_, _)
ExtractFrom(pieces, i) ==
  IF i > Len(pieces) THEN <<>>
  ELSE Match(pieces[i]) \o ExtractFrom(pieces, i + 1)

_extract_amounts(content) == ExtractFrom(content.amounts, 1)

\* max(amounts), for a non-empty list
MaxAmount(amounts) ==
  CHOOSE m \in Range(amounts) : \A x \in Range(amounts) : x <= m

\* the state of classify after the amount rule: [reasons, risk_level]
AmountRule(amounts) ==
  IF Len(amounts) = 0 THEN [reasons |-> <<>>, risk_level |-> "low"]
  ELSE IF MaxAmount(amounts) > 5000
       THEN [reasons |-> << <<"amount_exceeds_50", ToString(MaxAmount(amounts))>> >>,
             risk_level |-> "high"]
  ELSE IF MaxAmount(amounts) > 0
       THEN [reasons |-> << <<"contains_amount", ToString(MaxAmount(amounts))>> >>,
             risk_level |-> "medium"]
  ELSE [reasons |-> <<>>, risk_level |-> "low"]

KeywordStep_Lowering(st, category, content) ==
  IF AnyIn(SENSITIVE_KEYWORDS(category), content)
  THEN [reasons |-> Append(st.reasons, <<"category", category>>),
        risk_level |->
          IF category \in {"payment", "financial", "legal"} THEN "high"
          ELSE "medium"]
  ELSE st

\* one iteration of the loop over SENSITIVE_KEYWORDS
KeywordStep(st, category, content) ==
  IF AnyIn(SENSITIVE_KEYWORDS(category), content)
  THEN [reasons |-> Append(st.reasons, <<"category", category>>),
        risk_level |->
          IF category \in {"payment", "financial", "legal"} THEN "high"
          ELSE IF st.risk_level = "low" THEN "medium"
          ELSE st.risk_level]
  ELSE st

RECURSIVE KeywordRule(_, _, _)
KeywordRule(st, i, content) ==
  IF i > Len(Categories) THEN st
  ELSE KeywordRule(KeywordStep(st, Categories[i], content), i + 1, content)

RecipientRule(st, action_type, metadata) ==
  LET recipient == IF metadata.to # "" THEN metadata.to ELSE metadata.from
  IN  IF /\ action_type \in {"send_email", "reply_email"}
         /\ recipient # ""
         /\ recipient \notin known_contacts
      THEN [reasons |-> Append(st.reasons, <<"unknown_recipient", recipient>>),
            risk_level |-> IF st.risk_level = "low" THEN "medium"
                           ELSE st.risk_level]
      ELSE st

DeleteRule_AndCreate(st, action_type) ==
  IF action_type \in {"delete_file", "create_file"}
  THEN [reasons |-> Append(st.reasons, <<"file_deletion">>),
        risk_level |-> "high"]
  ELSE st

\* the file operation rule of classify
DeleteRule(st, action_type) ==
  IF action_type = "delete_file"
  THEN [reasons |-> Append(st.reasons, <<"file_deletion">>),
        risk_level |-> "high"]
  ELSE st

SocialRule_Silent(st, action_type) ==
  IF action_type \in {"social_post", "social_reply"}
  THEN [reasons |-> st.reasons,
        risk_level |-> IF st.risk_level = "low" THEN "medium"
                       ELSE st.risk_level]
  ELSE st

\* the social media rule of classify
SocialRule(st, action_type) ==
  IF action_type \in {"social_post", "social_reply"}
  THEN [reasons |-> Append(st.reasons, <<"social_media">>),
        risk_level |-> IF st.risk_level = "low" THEN "medium"
                       ELSE st.risk_level]
  ELSE st

\* metadata.get("source", "").lower() raises AttributeError: the metadata
\* is not a dict (and not falsy), or the value of its source is not a string
AttributeError(metadata) ==
  metadata.py # "dict" \/ metadata.source = PyNone

\* HITLClassifier.classify; raised: the call raised instead of returning
classify(task_content, metadata) ==
  LET action_type == _detect_action_type(task_content, metadata)
      s1 == AmountRule(_extract_amounts(task_content))
      s2 == KeywordRule(s1, 1, task_content)
      s3 == RecipientRule(s2, action_type, metadata)
      s4 == DeleteRule(s3, action_type)
      s5 == SocialRule(s4, action_type)
      requires_approval ==
        Len(s5.reasons) > 0 \/ s5.risk_level \in {"medium", "high"}
  IN  IF AttributeError(metadata)
      THEN [ raised |-> TRUE, requires_approval |-> FALSE, reasons |-> <<>>,
             action_type |-> "unknown", risk_level |-> "low" ]
      ELSE [ raised |-> FALSE,
             requires_approval |-> requires_approval,
             reasons |-> IF Len(s5.reasons) > 0 THEN s5.reasons
                         ELSE << <<"no_sensitive_content">> >>,
             action_type |-> action_type,
             risk_level |-> s5.risk_level ]

\* ------------------------------------------------------------- audit log
\* log_action: the audit sink keeps every event it is given
Log(a, e) == a (+) SetToBag({e})

\* id is the identity of the task the event is about (0: none); it stands
\* for the file content the target path had when the event was logged
Event(type, folder, name, status, result, id) ==
  [ action_type |-> type, folder |-> folder, name |-> name,
    parameters |-> "none",
    approval_status |-> status, result |-> result, id |-> id ]

\* ---------------------------------------------------------------- watcher
\* the text outside the YAML header that create_task_file writes around the
\* title and the content
Boilerplate == { "create", "plan", "analyze" }

TaskFile(id, title, source, text) ==
  [ kind |-> "task", id |-> id, header |-> "yaml",
    title |-> title, source |-> source,
    body |-> [text EXCEPT !.words = @ \cup Boilerplate],
    notes |-> <<>> ]

TaskFileName(t, title) == <<Strftime(t)>> \o title

\* no call was made on the multi-step runner yet
NoCall == [ op |-> "none", id |-> "none", result |-> "none", seq |-> 0 ]

\* the watchers the Watchdog is given, in the order of its list
WatcherList == << "Filesystem_Watcher", "Gmail_Watcher" >>
WatcherNames == Range(WatcherList)

\* Optional[datetime]: None is the empty sequence, a time t is <<t>>
None == <<>>

\* BaseWatcher.__init__
NewWatcher == [ is_running |-> FALSE, last_check |-> None ]

\* nothing was examined yet
NoTrace ==
  [ attempts |-> 0, down |-> TRUE, unhealthy |-> TRUE, at |-> 0,
    was_running |-> FALSE, invoked |-> FALSE, restart |-> <<>> ]

\* Scheduler._thread is None: the loop was not started
NoThread == [ pc |-> "idle", i |-> 0, until |-> 0, outcome |-> "none" ]

\* Scheduler.stop was not called
NoStop == [ phase |-> "none", deadline |-> 0 ]

\* classify was not called
NoClassify ==
  [ made |-> FALSE, trace |-> <<>>,
    text |-> [words |-> {}, amounts |-> <<>>],
    metadata |-> [py |-> "dict", source |-> "", to |-> "", from |-> ""],
    raised |-> FALSE, requires_approval |-> FALSE, reasons |-> <<>>,
    action_type |-> "unknown", risk_level |-> "low" ]

\* no call of process_approvals is under way
\* (raised_names: the tasks whose callback raised so far)
NoHandling ==
  [ pc |-> "idle", tasks |-> <<>>, i |-> 0, raised |-> FALSE,
    raised_names |-> {} ]

\* no process of main.py was started; start_time -1 is None
NoProcess ==
  [ pc |-> "none", environ |-> "unset", dry_run_flag |-> FALSE,
    gmail |-> "disabled", settings |-> [dry_run |-> TRUE],
    watchers |-> <<>>, started |-> {}, i |-> 0, scheduler |-> "none",
    is_running |-> FALSE, start_time |-> -1, last_process_time |-> 0,
    cycles |-> 0, external_actions |-> 0 ]

Init ==
  /\ vault = [d \in Folders |-> <<>>]
  /\ cl_call = NoClassify
  /\ orch = NoProcess
  /\ writing = {}
  /\ handling = NoHandling
  /\ sc_tasks = <<>>
  /\ sc_is_running = FALSE
  /\ sc_thread = NoThread
  /\ sc_stop = NoStop
  /\ sc_tick = [ calls |-> <<>>, raised |-> FALSE ]
  /\ watchers = [w \in WatcherNames |-> NewWatcher]
  /\ wd_is_running = FALSE
  /\ _restart_counts = [w \in WatcherNames |-> 0]
  /\ _last_errors = [w \in WatcherNames |-> "Unknown"]
  /\ checks = 0
  /\ stops = 0
  /\ wd_trace = [w \in WatcherNames |-> NoTrace]
  /\ _tasks = <<>>
  /\ multistep = <<>>
  /\ ms_created = 0
  /\ ms_high = <<>>
  /\ ms_last = NoCall
  /\ now = 0
  /\ created = 0
  /\ processed_approvals = {}
  /\ audit = EmptyBag
  /\ callbacks = EmptyBag
  /\ human_approved = {}
  /\ faults = 0
  /\ intake = FALSE

\* the wall clock reaches the next second
Tick ==
  /\ now < MaxClock
  /\ now' = now + 1
  /\ UNCHANGED << wd_vars, ms_vars, sc_vars, cl_vars, or_vars,
                  vault, created, processed_approvals, audit, callbacks,
                  human_approved, faults, intake >>

\* BaseWatcher.create_task_file
create_task_file(title, text) ==
  /\ created < MaxTasks
  /\ LET filename == TaskFileName(now, title)
         content == TaskFile(created + 1, title, "filesystem", text)
     IN  /\ vault' = WriteText(vault, NEEDS_ACTION, filename, content)
         /\ audit' = Log(audit,
                       Event("task_created", NEEDS_ACTION, filename, "none",
                             "success", created + 1))
  /\ created' = created + 1
  /\ intake' = TRUE
  /\ UNCHANGED << wd_vars, ms_vars, sc_vars, cl_vars, or_vars,
                  now, processed_approvals, callbacks, human_approved,
                  faults >>

\* ---------------------------------------------------------- I/O errors
\* a shutil.move that raises: os.rename failed and nothing changed
MoveFaults == { "move_error" }

\* shutil.copy where the code has shutil.move
MoveOutcome_Copy(v, d1, n1, d2, n2, o) ==
  IF o = "ok" THEN ShutilCopy(v, d1, n1, d2, n2) ELSE v

\* the vault after shutil.move with the outcome o ("ok" or a fault)
MoveOutcome(v, d1, n1, d2, n2, o) ==
  IF o = "ok" THEN ShutilMove(v, d1, n1, d2, n2) ELSE v

\* --------------------------------------------------------- Task Processor
\* the points of process_task at which the file system can raise
ProcessFaults == { "read", "write_plan", "move_error", "copy" }

\* TaskProcessor._parse_task
\* header: "yaml" the text between the two "---" is a YAML mapping,
\* "scalar" it is YAML but no mapping (a plain sentence), "invalid" safe_load
\* raises YAMLError on it, "none" the file has no "---" front matter
_parse_task(content) ==
  IF content.header = "yaml"
  THEN [ metadata |-> [py |-> "dict", source |-> content.source,
                       to |-> "", from |-> ""],
         body |-> content.body ]
  ELSE IF content.header = "scalar"
  THEN [ metadata |-> [py |-> "str", source |-> "", to |-> "", from |-> ""],
         body |-> content.body ]
  ELSE [ metadata |-> NoMetadata,
         body |-> [content.body EXCEPT !.words = @ \cup content.header_words] ]

PlanName(t, task_name) == << Strftime(t), "plan" >> \o task_name

\* the plan file that _create_plan writes
PlanFile(task_name, content, decision) ==
  [ kind |-> "plan", id |-> content.id, task |-> task_name,
    action_type |-> decision.action_type,
    risk_level |-> decision.risk_level,
    requires_approval |-> decision.requires_approval,
    status |-> IF decision.requires_approval THEN "pending_approval"
               ELSE "auto_approved",
    reasons |-> decision.reasons, notes |-> <<>> ]

\* TaskProcessor._route_to_pending and _route_to_auto_approved, which differ
\* in the folder, the event type and the approval status only.
\* st = [vault, audit, raised]
Route(st, task_name, plan_name, folder, type, status, fault) ==
  LET v0 == st.vault
      id == v0[NEEDS_ACTION][task_name].id
      moveFails == fault \in MoveFaults
      v1 == MoveOutcome(v0, NEEDS_ACTION, task_name, folder, task_name,
                        IF moveFails THEN fault ELSE "ok")
  IN  IF moveFails
      THEN [vault |-> v1, audit |-> st.audit, raised |-> TRUE]
      ELSE IF fault = "copy"
      THEN [vault |-> v1, audit |-> st.audit, raised |-> TRUE]
      ELSE [vault |-> ShutilCopy(v1, PLANS, plan_name, folder, plan_name),
            audit |-> Log(st.audit,
                        Event(type, folder, task_name, status, "success", id)),
            raised |-> FALSE]

\* _route_to_pending with the folder of _route_to_auto_approved
_route_to_pending_Approved(st, task_name, plan_name, fault) ==
  Route(st, task_name, plan_name, APPROVED,
        "task_pending_approval", "pending", fault)

_route_to_pending(st, task_name, plan_name, fault) ==
  Route(st, task_name, plan_name, PENDING_APPROVAL,
        "task_pending_approval", "pending", fault)

\* _route_to_auto_approved with the approval status of _route_to_pending
_route_to_auto_approved_Pending(st, task_name, plan_name, fault) ==
  Route(st, task_name, plan_name, APPROVED,
        "task_auto_approved", "pending", fault)

_route_to_auto_approved(st, task_name, plan_name, fault) ==
  Route(st, task_name, plan_name, APPROVED,
        "task_auto_approved", "auto_approved", fault)

\* TaskProcessor.process_task from the decision of the classifier on: the
\* plan is written and the task is routed
_create_plan_and_route(st, task_name, t, fault, content, decision) ==
    LET plan_name == PlanName(t, task_name)
    IN  IF decision.raised THEN [st EXCEPT !.raised = TRUE]
        ELSE IF fault = "write_plan" THEN [st EXCEPT !.raised = TRUE]
        ELSE
          LET planned ==
                [ vault |-> WriteText(st.vault, PLANS, plan_name,
                                      PlanFile(task_name, content, decision)),
                  audit |-> Log(st.audit,
                              [Event("plan_created", PLANS, plan_name, "none",
                                     "success", content.id)
                                 EXCEPT !.parameters =
                                   IF decision.requires_approval
                                   THEN "requires_approval=True"
                                   ELSE "requires_approval=False"]),
                  raised |-> FALSE ]
          IN  IF decision.requires_approval
              THEN _route_to_pending(planned, task_name, plan_name, fault)
              ELSE _route_to_auto_approved(planned, task_name, plan_name,
                                           fault)

\* TaskProcessor.process_task at time t; raised tells whether it raised
process_task(st, task_name, t, fault) ==
  IF fault = "read" THEN [st EXCEPT !.raised = TRUE]
  ELSE
    LET content == st.vault[NEEDS_ACTION][task_name]
        parsed == _parse_task(content)
    IN  _create_plan_and_route(st, task_name, t, fault, content,
                               classify(parsed.body, parsed.metadata))

\* the except clause of the loop of process_all, on the outcome r of
\* process_task
ProcessExcept(r, task_name) ==
  IF r.raised
  THEN [r EXCEPT !.audit =
          Log(@, Event("task_process_error", NEEDS_ACTION, task_name,
                          "none", "failure", 0))]
  ELSE r

\* the body of the loop of process_all: the try and its except clause
ProcessOne(st, task_name, t, fault) ==
  ProcessExcept(process_task([st EXCEPT !.raised = FALSE], task_name, t,
                             fault), task_name)

\* TaskProcessor.process_all over the listing `tasks`
RECURSIVE process_all(_, _, _, _, _)
process_all(st, tasks, i, t, fault) ==
  IF i > Len(tasks) THEN st
  ELSE process_all(ProcessOne(st, tasks[i], t, fault[tasks[i]]),
                   tasks, i + 1, t, fault)

\* the number of files on which an assignment of faults raises an error
NumFaults(fault) == Cardinality({ n \in DOMAIN fault : fault[n] # "none" })

\* the vault and the audit log after a scan that ended with r
Scanned(r) ==
  /\ vault' = r.vault
  /\ audit' = r.audit

\* one Task Processor scan of the orchestrator
ProcessAll ==
  \E tasks \in Orders(Files(vault, NEEDS_ACTION)) :
  \E fault \in [Files(vault, NEEDS_ACTION) -> ProcessFaults \cup {"none"}] :
    /\ faults + NumFaults(fault) <= MaxFaults
    /\ Scanned(process_all([vault |-> vault, audit |-> audit,
                            raised |-> FALSE], tasks, 1, now, fault))
    /\ faults' = faults + NumFaults(fault)
    /\ intake' = FALSE
    /\ UNCHANGED << wd_vars, ms_vars, sc_vars, cl_vars, or_vars,
                    now, created, processed_approvals, callbacks,
                    human_approved >>

\* -------------------------------------------------------- Approval Handler
\* the points of _process_approved_task at which the file system can raise
ApprovalFaults == { "move_error", "plan_error" }

DoneName(t, marker, name) == << Strftime(t), marker >> \o name

\* moves every file of `names` from d1 to `rename[name]` in d2
RECURSIVE MoveEach(_, _, _, _, _, _)
MoveEach(v, names, d1, d2, t, marker) ==
  IF names = {} THEN v
  ELSE LET n == CHOOSE x \in names : TRUE
       IN  MoveEach(ShutilMove(v, d1, n, d2,
                               IF marker = "" THEN n
                               ELSE DoneName(t, marker, n)),
                    names \ {n}, d1, d2, t, marker)

\* ApprovalHandler._move_to_done.   st = [vault, audit, callbacks,
\* processed_approvals, raised]
_move_to_done(st, task_name, t, fault) ==
  LET id == st.vault[APPROVED][task_name].id
      done_name == DoneName(t, "completed", task_name)
      v1 == MoveOutcome(st.vault, APPROVED, task_name, DONE, done_name,
                        IF fault \in MoveFaults THEN fault ELSE "ok")
      plans == PlanFiles(v1, APPROVED, task_name)
  IN  IF fault \in MoveFaults
      THEN [st EXCEPT !.vault = v1, !.raised = TRUE]
      ELSE IF fault = "plan_error" /\ plans # {}
      THEN [st EXCEPT !.vault = v1, !.raised = TRUE]
      ELSE [st EXCEPT
              !.vault = MoveEach(v1, plans, APPROVED, DONE, t, "completed"),
              !.audit = Log(@, Event("task_completed", DONE, done_name,
                                     "none", "success", id))]

\* ApprovalHandler._process_approved_task
_process_approved_task(st, task_name, t, fault) ==
  LET id == st.vault[APPROVED][task_name].id
      marked ==
        [st EXCEPT
           !.processed_approvals = @ \cup {task_name},
           !.audit = Log(@, Event("task_approved", APPROVED, task_name,
                                  "approved", "success", id)),
           !.callbacks = @ (+) SetToBag({[name |-> task_name, id |-> id]})]
  IN  _move_to_done(marked, task_name, t, fault)

\* scan_approved without the processed set
scan_approved_Unfiltered(v, processed) ==
  { n \in Files(v, APPROVED) : ~HasPlanMarker(n) }

\* ApprovalHandler.scan_approved
scan_approved(v, processed) ==
  { n \in Files(v, APPROVED) : ~HasPlanMarker(n) /\ n \notin processed }

\* the body of the loop of process_approvals: the try and its except clause
ApproveOne(st, task_name, t, fault) ==
  LET r == _process_approved_task([st EXCEPT !.raised = FALSE],
                                  task_name, t, fault)
  IN  IF r.raised
      THEN [r EXCEPT !.audit =
              Log(@, Event("approval_process_error", APPROVED, task_name,
                           "none", "failure", 0))]
      ELSE r

\* ApprovalHandler.process_approvals over the listing `tasks`
RECURSIVE process_approvals(_, _, _, _, _)
process_approvals(st, tasks, i, t, fault) ==
  IF i > Len(tasks) THEN st
  ELSE process_approvals(ApproveOne(st, tasks[i], t, fault[tasks[i]]),
                         tasks, i + 1, t, fault)

\* one Approval Handler scan of the orchestrator
ProcessApprovals ==
  LET approved_tasks == scan_approved(vault, processed_approvals)
  IN  \E tasks \in Orders(approved_tasks) :
      \E fault \in [approved_tasks -> ApprovalFaults \cup {"none"}] :
        /\ faults + NumFaults(fault) <= MaxFaults
        /\ LET r == process_approvals(
                      [vault |-> vault, audit |-> audit,
                       callbacks |-> callbacks,
                       processed_approvals |-> processed_approvals,
                       raised |-> FALSE], tasks, 1, now, fault)
           IN  /\ vault' = r.vault
               /\ audit' = r.audit
               /\ callbacks' = r.callbacks
               /\ processed_approvals' = r.processed_approvals
        /\ faults' = faults + NumFaults(fault)
        /\ UNCHANGED << wd_vars, ms_vars, sc_vars, cl_vars, or_vars,
                        now, created, human_approved, intake >>

\* ids of the task files of folder d
TaskIds(v, d) ==
  { v[d][n].id : n \in { x \in Files(v, d) : v[d][x].kind = "task" } }

\* ids of the tasks that are in Pending_Approval in v and in Approved in w
Approvals(v, w) ==
  (TaskIds(v, PENDING_APPROVAL) \cap TaskIds(w, APPROVED))
     \ TaskIds(v, APPROVED)

\* the names a caller passes to approve_task and reject_task: a file of
\* Pending_Approval, or a name that is not there
MissingName == << "missing" >>
CallNames(v) == Files(v, PENDING_APPROVAL) \cup { MissingName }

\* the files a human relocates: task files
HumanFiles(v, d) == { n \in Files(v, d) : ~HasPlanMarker(n) }

\* ApprovalHandler.approve_task
approve_task(task_name) ==
  /\ IF ~Exists(vault, PENDING_APPROVAL, task_name)
     THEN vault' = vault
     ELSE LET v1 == ShutilMove(vault, PENDING_APPROVAL, task_name,
                               APPROVED, task_name)
              plans == PlanFiles(v1, PENDING_APPROVAL, task_name)
          IN  vault' = MoveEach(v1, plans, PENDING_APPROVAL, APPROVED,
                                now, "")
  /\ human_approved' = human_approved \cup Approvals(vault, vault')
  /\ UNCHANGED << wd_vars, ms_vars, sc_vars, cl_vars, or_vars,
                  now, created, processed_approvals, audit, callbacks,
                  faults, intake >>

\* a rejection note that leaves the reason out
RejectionNote_NoReason(t, reason) == [ date |-> t, reason |-> "" ]

\* the note reject_task appends to the file
RejectionNote(t, reason) ==
  [ date |-> t,
    reason |-> IF reason = "" THEN "No reason provided" ELSE reason ]

\* ApprovalHandler.reject_task
reject_task(task_name, reason) ==
  /\ IF ~Exists(vault, PENDING_APPROVAL, task_name)
     THEN /\ vault' = vault
          /\ audit' = audit
     ELSE LET content == vault[PENDING_APPROVAL][task_name]
              noted == [content EXCEPT
                          !.notes = Append(@, RejectionNote(now, reason))]
              v1 == WriteText(vault, PENDING_APPROVAL, task_name, noted)
              done_name == DoneName(now, "REJECTED", task_name)
              v2 == ShutilMove(v1, PENDING_APPROVAL, task_name,
                               DONE, done_name)
              plans == PlanFiles(v2, PENDING_APPROVAL, task_name)
          IN  /\ vault' = MoveEach(v2, plans, PENDING_APPROVAL, DONE,
                                   now, "REJECTED")
              /\ audit' = Log(audit,
                              Event("task_rejected", DONE, done_name,
                                    "rejected", "success", content.id))
  /\ UNCHANGED << wd_vars, ms_vars, sc_vars, cl_vars, or_vars,
                  now, created, processed_approvals, callbacks,
                  human_approved, faults, intake >>

\* a human relocates a file between Pending_Approval and Approved
HumanMove(d1, d2, name) ==
  /\ Exists(vault, d1, name)
  /\ vault' = ShutilMove(vault, d1, name, d2, name)
  /\ human_approved' = human_approved \cup Approvals(vault, vault')
  /\ UNCHANGED << wd_vars, ms_vars, sc_vars, cl_vars, or_vars,
                  now, created, processed_approvals, audit, callbacks,
                  faults, intake >>

Next ==
  \/ Tick
  \/ \E title \in Titles, text \in TaskTexts : create_task_file(title, text)
  \/ ProcessAll
  \/ ProcessApprovals
  \/ \E task_name \in CallNames(vault) : approve_task(task_name)
  \/ \E task_name \in CallNames(vault), reason \in Reasons :
        reject_task(task_name, reason)
  \/ \E name \in HumanFiles(vault, PENDING_APPROVAL) :
        HumanMove(PENDING_APPROVAL, APPROVED, name)
  \/ \E name \in HumanFiles(vault, APPROVED) :
        HumanMove(APPROVED, PENDING_APPROVAL, name)

Spec == Init /\ [][Next]_vars

\* =============================================================== Watchdog
health_check_interval == 60
max_restart_attempts == 3
\* timedelta(minutes=5), in seconds
StaleSeconds == 300

\* what stop() followed by start() does to a watcher: start() returns with
\* the watcher running, start() returns without it running (GmailWatcher
\* without credentials), or start() raises after stop() stopped it
RestartOutcomes == { "running", "not_running", "raises" }

Min(a, b) == IF a < b THEN a ELSE b

\* a backoff that grows by two seconds per attempt
Backoff_Linear(count) == Min(2 * count, 60)

\* min(2 ** count, 60)
Backoff(count) == Min(2 ^ count, 60)

\* a health check that does not look at last_check
IsStale_Never(last_check, t) == FALSE

\* watcher.last_check and watcher.last_check < datetime.now() - 5 minutes
IsStale(last_check, t) ==
  /\ last_check # None
  /\ last_check[1] < t - StaleSeconds

AlertName(t, name) == << Strftime(t), "ALERT", name >>

AlertFile(name, error, attempts, last_error, t) ==
  [ kind |-> "alert", id |-> 0, header |-> "yaml", watcher |-> name,
    error |-> error, attempts |-> attempts, last_error |-> last_error,
    created |-> t ]

\* the state a health check works on
WdState ==
  [ watchers |-> watchers, counts |-> _restart_counts,
    errors |-> _last_errors, vault |-> vault, now |-> now,
    audit |-> audit, trace |-> wd_trace ]

\* WatchdogMonitor._alert_human
_alert_human(st, name, count) ==
  [ st EXCEPT
      !.trace[name].invoked = TRUE,
      !.vault = WriteText(@, PENDING_APPROVAL, AlertName(st.now, name),
                          AlertFile(name, <<"Failed after", ToString(count)>>,
                                    st.counts[name], st.errors[name],
                                    st.now)),
      !.audit = Log(@, Event("watchdog_alert", PENDING_APPROVAL,
                             AlertName(st.now, name), "none", "alert", 0)) ]

\* WatchdogMonitor._restart_watcher
_restart_watcher(st, name, outcome) ==
  LET count == st.counts[name]
      backoff == Backoff(count)
      running == (outcome = "running")
      slept == [ st EXCEPT !.now = @ + backoff ]
      attempt == [ count |-> count, backoff |-> backoff,
                   running |-> running ]
  IN  IF count >= max_restart_attempts
      THEN _alert_human(st, name, count)
      ELSE [ slept EXCEPT
               !.watchers[name].is_running = running,
               !.counts[name] = IF running THEN 0 ELSE count + 1,
               !.errors[name] = IF outcome = "raises" THEN "start failed"
                                ELSE @,
               !.audit = Log(@, Event("watchdog_restart", "none", <<name>>,
                                      "none",
                                      IF outcome = "raises" THEN "failure"
                                      ELSE "success", 0)),
               !.trace[name].invoked = TRUE,
               !.trace[name].attempts = @ + 1,
               !.trace[name].restart = << attempt >> ]

\* the body of the loop of _check_health for one watcher
CheckOne(st, name, outcome) ==
  LET watcher == st.watchers[name]
      unhealthy == ~watcher.is_running \/ IsStale(watcher.last_check, st.now)
      seen == [ st EXCEPT !.trace[name].at = st.now,
                          !.trace[name].invoked = FALSE,
                          !.trace[name].was_running = watcher.is_running,
                          !.trace[name].restart = <<>>,
                          !.trace[name].unhealthy = @ /\ unhealthy,
                          !.trace[name].down = @ /\ ~watcher.is_running ]
      after == IF unhealthy THEN _restart_watcher(seen, name, outcome)
               ELSE seen
  IN  [ after EXCEPT !.trace[name].down = @ /\ ~after.watchers[name].is_running ]

\* WatchdogMonitor._check_health
RECURSIVE _check_health(_, _, _)
_check_health(st, list, outcomes) ==
  IF list = <<>> THEN st
  ELSE _check_health(CheckOne(st, Head(list), outcomes[Head(list)]),
                     Tail(list), outcomes)

\* WatchdogMonitor.start
watchdog_start ==
  /\ ~wd_is_running
  /\ wd_is_running' = TRUE
  /\ UNCHANGED << vault, now, audit, faults, wf_vars, ms_vars, sc_vars, cl_vars, or_vars, watchers,
                  _restart_counts, _last_errors, checks, stops, wd_trace >>

\* one iteration of WatchdogMonitor._monitor_loop: the health check and the
\* sleep that follows it
_monitor_loop ==
  /\ wd_is_running
  /\ checks < MaxChecks
  /\ \E outcomes \in [WatcherNames -> RestartOutcomes] :
       LET st == _check_health(WdState, WatcherList, outcomes)
       IN  /\ watchers' = st.watchers
           /\ _restart_counts' = st.counts
           /\ _last_errors' = st.errors
           /\ vault' = st.vault
           /\ audit' = st.audit
           /\ wd_trace' = st.trace
           /\ now' = st.now + health_check_interval
  /\ checks' = checks + 1
  /\ UNCHANGED << faults, wf_vars, ms_vars, sc_vars, cl_vars, or_vars, wd_is_running, stops >>

\* the Orchestrator starts a watcher: BaseWatcher.start
watcher_start(name) ==
  /\ ~wd_is_running
  /\ ~watchers[name].is_running
  /\ watchers' = [watchers EXCEPT ![name].is_running = TRUE]
  /\ UNCHANGED << vault, now, audit, faults, wf_vars, ms_vars, sc_vars, cl_vars, or_vars,
                  wd_is_running, _restart_counts, _last_errors, checks, stops, wd_trace >>

\* a watcher polls its source: BaseWatcher.check
watcher_check(name) ==
  /\ watchers[name].is_running
  /\ watchers[name].last_check # << now >>
  /\ watchers' = [watchers EXCEPT ![name].last_check = << now >>]
  /\ UNCHANGED << vault, now, audit, faults, wf_vars, ms_vars, sc_vars, cl_vars, or_vars,
                  wd_is_running, _restart_counts, _last_errors, checks, stops, wd_trace >>

\* a watcher's loop ends: BaseWatcher.stop
watcher_stop(name) ==
  /\ stops < MaxStops
  /\ watchers[name].is_running
  /\ watchers' = [watchers EXCEPT ![name].is_running = FALSE]
  /\ stops' = stops + 1
  /\ UNCHANGED << vault, now, audit, faults, wf_vars, ms_vars, sc_vars, cl_vars, or_vars,
                  wd_is_running, _restart_counts, _last_errors, checks, wd_trace >>

\* the watchers run for more than five minutes before the Watchdog starts
Elapse ==
  /\ ~wd_is_running
  /\ now = 0
  /\ now' = now + StaleSeconds + 1
  /\ UNCHANGED << vault, audit, faults, wf_vars, wd_vars, ms_vars, sc_vars, cl_vars, or_vars >>

WatchdogNext ==
  \/ \E name \in WatcherNames : watcher_start(name)
  \/ \E name \in WatcherNames : watcher_check(name)
  \/ \E name \in WatcherNames : watcher_stop(name)
  \/ Elapse
  \/ watchdog_start
  \/ _monitor_loop

WatchdogSpec == Init /\ [][WatchdogNext]_vars

\* ====================================================== multi-step runner
\* the requires_approval flags of the steps a caller passes to create_task
RECURSIVE FlagLists(_)
FlagLists(n) ==
  IF n = 0 THEN { <<>> }
  ELSE LET shorter == FlagLists(n - 1)
       IN  shorter \cup { Append(l, b) : l \in { x \in shorter : Len(x) = n - 1 },
                                         b \in BOOLEAN }
StepLists == FlagLists(MaxSteps)

\* the step_result a caller passes to advance: None, a dict of strings and
\* numbers, a dict that holds a tuple
StepResults == { "None", "dict", "dict_tuple" }

\* TaskStep, as create_task builds it
TaskStep(requires_approval) ==
  [ requires_approval |-> requires_approval, status |-> "pending",
    result |-> "None" ]

\* MultiStepTask, as create_task builds it
MultiStepTask(id, flags, t) ==
  [ id |-> id, steps |-> [i \in DOMAIN flags |-> TaskStep(flags[i])],
    current_step |-> 0, status |-> "pending",
    created |-> t, updated |-> t ]

\* MultiStepTask.current_step_obj: the index in steps, 0 for None
current_step_obj(task) ==
  IF 0 <= task.current_step /\ task.current_step < Len(task.steps)
  THEN task.current_step + 1
  ELSE 0

\* yaml.dump of a step result: the default Dumper writes a tuple with the
\* tag !!python/tuple
YamlNode(result) ==
  CASE result = "None" -> "null"
    [] result = "dict" -> "map"
    [] result = "dict_tuple" -> "map !!python/tuple"

\* yaml.dump(task.to_dict())
YamlDump(task) ==
  [ task EXCEPT !.steps =
      [i \in DOMAIN task.steps |->
         [task.steps[i] EXCEPT !.result = YamlNode(@)]] ]

\* yaml.safe_load raises ConstructorError on a python tag
SafeLoadRaises(doc) ==
  \E i \in DOMAIN doc.steps : doc.steps[i].result = "map !!python/tuple"

\* yaml.safe_load of a node the SafeLoader constructs
PyValue(node) == IF node = "null" THEN "None" ELSE "dict"

\* MultiStepTask.from_dict(yaml.safe_load(content))
from_dict(doc) ==
  [ doc EXCEPT !.steps =
      [i \in DOMAIN doc.steps |->
         [doc.steps[i] EXCEPT !.result = PyValue(@)]] ]

\* a call of the runner with its outcome; seq tells a call from the one
\* before it
Call(op, id, result) ==
  [ op |-> op, id |-> id, result |-> result, seq |-> 1 - ms_last.seq ]

\* d with d[k] = x
Put(d, k, x) == [ y \in (DOMAIN d) \cup {k} |-> IF y = k THEN x ELSE d[y] ]

\* the approval request of the step before the current one
_create_approval_request_Previous(v, task, t) ==
  WriteText(v, PENDING_APPROVAL,
            << Strftime(t), "approval", task.id,
               "step" \o ToString(task.current_step - 1) >>,
            [ kind |-> "approval", id |-> 0, header |-> "yaml",
              multistep_id |-> task.id,
              step_index |-> task.current_step - 1 ])

\* RalphWiggumLoop._create_approval_request
_create_approval_request(v, task, t) ==
  WriteText(v, PENDING_APPROVAL,
            << Strftime(t), "approval", task.id,
               "step" \o ToString(task.current_step) >>,
            [ kind |-> "approval", id |-> 0, header |-> "yaml",
              multistep_id |-> task.id,
              step_index |-> task.current_step ])

\* what the file system does to the write of the state file: the write
\* succeeds, or it raises and _persist_state logs the error and returns
PersistOutcomes == { "ok", "persist_error" }

\* RalphWiggumLoop._persist_state
_persist_state(disk, task, outcome) ==
  IF outcome = "ok" THEN Put(disk, task.id, YamlDump(task)) ELSE disk

\* the largest current_step seen
Seen(high, task) ==
  Put(high, task.id,
      IF task.id \in DOMAIN high /\ high[task.id] > task.current_step
      THEN high[task.id] ELSE task.current_step)

\* RalphWiggumLoop.create_task
create_task(flags, outcome) ==
  /\ ms_created < MaxMsTasks
  /\ outcome # "ok" => faults < MaxFaults
  /\ LET task_id == "ms" \o ToString(ms_created + 1)
         task == MultiStepTask(task_id, flags, now)
     IN  /\ _tasks' = Put(_tasks, task_id, task)
         /\ multistep' = _persist_state(multistep, task, outcome)
         /\ audit' = Log(audit, Event("multistep_created", "MultiStep",
                                      <<task_id>>, "none", "success", 0))
         /\ ms_high' = Seen(ms_high, task)
         /\ ms_last' = Call("create_task", task_id, "task")
  /\ ms_created' = ms_created + 1
  /\ faults' = IF outcome = "ok" THEN faults ELSE faults + 1
  /\ UNCHANGED << vault, now, wf_vars, wd_vars, sc_vars, cl_vars, or_vars >>

\* what the file system does to the writes of advance: all succeed, the
\* write of the state file raises, the write of the approval request raises
AdvanceOutcomes == PersistOutcomes \cup { "approval_error" }

\* RalphWiggumLoop.advance
advance(task_id, step_result, outcome) ==
  /\ outcome # "ok" => faults < MaxFaults
  /\ IF task_id \notin DOMAIN _tasks \/ current_step_obj(_tasks[task_id]) = 0
     THEN \* no such task, or no current step: return False
          /\ outcome = "ok"
          /\ ms_last' = Call("advance", task_id, "False")
          /\ UNCHANGED << _tasks, multistep, vault, audit, ms_high, faults >>
     ELSE LET task == _tasks[task_id]
              current == current_step_obj(task)
              next_index == task.current_step + 1
              done == [ task EXCEPT !.steps[current].status = "completed",
                                    !.steps[current].result = step_result,
                                    !.updated = now ]
          IN  IF next_index >= Len(task.steps)
              THEN \* task complete
                   LET completed == [ done EXCEPT !.status = "completed",
                                                   !.current_step = next_index ]
                   IN  /\ outcome # "approval_error"
                       /\ _tasks' = Put(_tasks, task_id, completed)
                       /\ multistep' = _persist_state(multistep, completed,
                                                      outcome)
                       /\ audit' = Log(audit,
                                       Event("multistep_completed",
                                             "MultiStep", <<task_id>>,
                                             "none", "success", 0))
                       /\ ms_high' = Seen(ms_high, completed)
                       /\ ms_last' = Call("advance", task_id, "False")
                       /\ faults' = IF outcome = "ok" THEN faults
                                    ELSE faults + 1
                       /\ UNCHANGED vault
              ELSE \* advance to the next step
                   LET approval == done.steps[next_index + 1].requires_approval
                       moved == [ done EXCEPT
                                    !.current_step = next_index,
                                    !.status = IF approval THEN "paused"
                                               ELSE "in_progress" ]
                   IN  /\ outcome = "approval_error" => approval
                       /\ _tasks' = Put(_tasks, task_id, moved)
                       /\ ms_high' = Seen(ms_high, moved)
                       /\ audit' = audit
                       /\ faults' = IF outcome = "ok" THEN faults
                                    ELSE faults + 1
                       /\ IF outcome = "approval_error"
                          THEN \* write_text raises, and so does advance
                               /\ UNCHANGED << vault, multistep >>
                               /\ ms_last' = Call("advance", task_id, "raised")
                          ELSE /\ vault' =
                                    IF approval
                                    THEN _create_approval_request(vault,
                                                                  moved, now)
                                    ELSE vault
                               /\ multistep' = _persist_state(multistep,
                                                              moved, outcome)
                               /\ ms_last' = Call("advance", task_id, "True")
  /\ UNCHANGED << now, wf_vars, wd_vars, sc_vars, cl_vars, or_vars, ms_created >>

\* a state file that write_text has opened and not written: it is empty
EmptyStateFile(id) ==
  [ id |-> id, steps |-> <<>>, current_step |-> 0, status |-> "",
    created |-> 0, updated |-> 0 ]

\* the body of the loop of resume_all for one state file: safe_load of an
\* empty file is None, and the file is skipped
ResumeOne(tasks, disk, id, unreadable) ==
  IF id \in unreadable \/ SafeLoadRaises(disk[id])
  THEN tasks
  ELSE IF disk[id] = EmptyStateFile(id)
  THEN tasks
  ELSE LET task == from_dict(disk[id])
       IN  IF task.status \in { "pending", "in_progress", "paused" }
           THEN Put(tasks, task.id, task)
           ELSE tasks

RECURSIVE ResumeEach(_, _, _, _)
ResumeEach(tasks, disk, ids, unreadable) ==
  IF ids = {} THEN tasks
  ELSE LET id == CHOOSE x \in ids : TRUE
       IN  ResumeEach(ResumeOne(tasks, disk, id, unreadable), disk,
                      ids \ {id}, unreadable)

\* RalphWiggumLoop.resume_all; read_text raises for the files of unreadable
resume_all(unreadable) ==
  /\ faults + Cardinality(unreadable) <= MaxFaults
  /\ _tasks' = ResumeEach(_tasks, multistep, DOMAIN multistep, unreadable)
  /\ ms_last' = Call("resume_all", "none",
                     ToString(Cardinality(
                       { id \in DOMAIN multistep :
                           ResumeOne(<<>>, multistep, id, unreadable)
                             # <<>> })))
  /\ faults' = faults + Cardinality(unreadable)
  /\ UNCHANGED << vault, now, audit, wf_vars, wd_vars, sc_vars, cl_vars, or_vars, multistep,
                  ms_created, ms_high >>

\* the process ends and a new one constructs the runner:
\* RalphWiggumLoop.__init__
Restart ==
  /\ _tasks # <<>>
  /\ _tasks' = <<>>
  /\ ms_last' = Call("restart", "none", "none")
  /\ UNCHANGED << vault, now, audit, faults, wf_vars, wd_vars, sc_vars, cl_vars, or_vars, multistep,
                  ms_created, ms_high >>

\* the task ids a caller passes to advance
AdvanceIds == (DOMAIN multistep) \cup { "missing" }

RalphNext ==
  \/ Tick
  \/ \E flags \in StepLists, outcome \in PersistOutcomes :
        create_task(flags, outcome)
  \/ \E task_id \in AdvanceIds, step_result \in StepResults,
        outcome \in AdvanceOutcomes :
        advance(task_id, step_result, outcome)
  \/ \E unreadable \in SUBSET (DOMAIN multistep) : resume_all(unreadable)
  \/ Restart

RalphSpec == Init /\ [][RalphNext]_vars

\* =============================================================== Scheduler
\* interval_seconds of the jobs given to add_task
Intervals == { 1, 3 }

\* seconds a callback takes before it returns or raises
CallbackSeconds == { 0, 6 }

\* a callback returns, or raises an Exception
CallbackOutcomes == { "returns", "raises" }

\* time.sleep(1) at the end of each tick of _run_loop
TickSleep == 1

\* self._thread.join(timeout=5)
JoinTimeout == 5

\* ScheduledTask.__init__
ScheduledTask(interval_seconds, run_immediately, t) ==
  [ interval_seconds |-> interval_seconds,
    next_run |-> IF run_immediately THEN t ELSE t + interval_seconds,
    run_count |-> 0,
    error_count |-> 0 ]

\* ScheduledTask.should_run
should_run(task, t) == t >= task.next_run

NextRun_CatchUp(task, t) == task.next_run + task.interval_seconds

\* datetime.now() + timedelta(seconds=self.interval_seconds)
NextRun(task, t) == t + task.interval_seconds

run_Uncounted(task, outcome, t) ==
  [ task EXCEPT !.next_run = NextRun(task, t),
                !.run_count = IF outcome = "returns" THEN @ + 1 ELSE @ ]

\* ScheduledTask.run, from the moment the callback returned or raised at t
run(task, outcome, t) ==
  IF outcome = "returns"
  THEN [ task EXCEPT !.next_run = NextRun(task, t), !.run_count = @ + 1 ]
  ELSE [ task EXCEPT !.error_count = @ + 1, !.next_run = NextRun(task, t) ]

\* Scheduler.add_task, called by Orchestrator.setup before the loop starts
add_task(interval_seconds, run_immediately) ==
  /\ sc_thread.pc = "idle"
  /\ Len(sc_tasks) < MaxJobs
  /\ sc_tasks' =
       Append(sc_tasks, ScheduledTask(interval_seconds, run_immediately, now))
  /\ sc_tick' = [ sc_tick EXCEPT !.calls = Append(@, 0) ]
  /\ UNCHANGED << vault, now, audit, faults, wf_vars, wd_vars, ms_vars, cl_vars, or_vars,
                  sc_is_running, sc_thread, sc_stop >>

\* Scheduler.start, called once by Orchestrator.start
scheduler_start ==
  /\ ~sc_is_running
  /\ sc_thread.pc = "idle"
  /\ sc_stop.phase = "none"
  /\ sc_is_running' = TRUE
  /\ sc_thread' = [ sc_thread EXCEPT !.pc = "while" ]
  /\ UNCHANGED << vault, now, audit, faults, wf_vars, wd_vars, ms_vars, cl_vars, or_vars,
                  sc_tasks, sc_stop, sc_tick >>

\* _run_loop: "while self.is_running", the start of a tick
_run_loop_while ==
  /\ sc_thread.pc = "while"
  /\ IF sc_is_running
     THEN /\ sc_thread' = [ sc_thread EXCEPT !.pc = "for", !.i = 1 ]
          /\ sc_tick' = [ calls |-> [ i \in DOMAIN sc_tasks |-> 0 ],
                          raised |-> FALSE ]
     ELSE /\ sc_thread' = [ sc_thread EXCEPT !.pc = "exited" ]
          /\ UNCHANGED sc_tick
  /\ UNCHANGED << vault, now, audit, faults, wf_vars, wd_vars, ms_vars, cl_vars, or_vars,
                  sc_tasks, sc_is_running, sc_stop >>

\* _run_loop: "for task in self.tasks: if task.should_run(): task.run()",
\* up to the call of the callback, and the time.sleep(1) after the last job
_run_loop_for(seconds, outcome) ==
  /\ sc_thread.pc = "for"
  /\ IF sc_thread.i > Len(sc_tasks)
     THEN /\ sc_thread' = [ sc_thread EXCEPT !.pc = "sleep",
                                             !.until = now + TickSleep ]
          /\ UNCHANGED sc_tick
     ELSE IF should_run(sc_tasks[sc_thread.i], now)
          THEN /\ sc_thread' = [ sc_thread EXCEPT !.pc = "callback",
                                                  !.until = now + seconds,
                                                  !.outcome = outcome ]
               /\ sc_tick' = [ sc_tick EXCEPT !.calls[sc_thread.i] = @ + 1 ]
          ELSE /\ sc_thread' = [ sc_thread EXCEPT !.i = @ + 1 ]
               /\ UNCHANGED sc_tick
  /\ UNCHANGED << vault, now, audit, faults, wf_vars, wd_vars, ms_vars, cl_vars, or_vars,
                  sc_tasks, sc_is_running, sc_stop >>

\* ScheduledTask.run: the callback returns or raises, the job is rescheduled
\* and the loop goes on with the next job
callback_done ==
  /\ sc_thread.pc = "callback"
  /\ now = sc_thread.until
  /\ sc_tasks' = [ sc_tasks EXCEPT
                     ![sc_thread.i] = run(@, sc_thread.outcome, now) ]
  /\ sc_thread' = [ sc_thread EXCEPT !.pc = "for", !.i = @ + 1,
                                     !.outcome = "none" ]
  /\ sc_tick' = [ sc_tick EXCEPT
                    !.raised = @ \/ sc_thread.outcome = "raises" ]
  /\ UNCHANGED << vault, now, audit, faults, wf_vars, wd_vars, ms_vars, cl_vars, or_vars,
                  sc_is_running, sc_stop >>

\* time.sleep(1) returns
sleep_done ==
  /\ sc_thread.pc = "sleep"
  /\ now = sc_thread.until
  /\ sc_thread' = [ sc_thread EXCEPT !.pc = "while" ]
  /\ UNCHANGED << vault, now, audit, faults, wf_vars, wd_vars, ms_vars, cl_vars, or_vars,
                  sc_tasks, sc_is_running, sc_stop, sc_tick >>

\* Scheduler.stop up to the join: is_running = False, join(timeout=5)
scheduler_stop ==
  /\ sc_thread.pc # "idle"
  /\ sc_stop.phase = "none"
  /\ sc_is_running' = FALSE
  /\ sc_stop' = [ phase |-> "joining", deadline |-> now + JoinTimeout ]
  /\ UNCHANGED << vault, now, audit, faults, wf_vars, wd_vars, ms_vars, cl_vars, or_vars,
                  sc_tasks, sc_thread, sc_tick >>

\* Scheduler.stop returns: the thread ended or the join timed out
scheduler_stop_return ==
  /\ sc_stop.phase = "joining"
  /\ sc_thread.pc = "exited" \/ now = sc_stop.deadline
  /\ sc_stop' = [ sc_stop EXCEPT !.phase = "returned" ]
  /\ UNCHANGED << vault, now, audit, faults, wf_vars, wd_vars, ms_vars, cl_vars, or_vars,
                  sc_tasks, sc_is_running, sc_thread, sc_tick >>

\* a second passes: only while the thread is in a callback or asleep (or is
\* not running), and not past the end of a callback, a sleep or a join
Second ==
  /\ now < MaxSchedClock
  /\ \/ sc_thread.pc \in { "idle", "exited" }
     \/ sc_thread.pc \in { "callback", "sleep" } /\ now < sc_thread.until
  /\ sc_stop.phase = "joining" =>
       now < sc_stop.deadline /\ sc_thread.pc # "exited"
  /\ now' = now + 1
  /\ UNCHANGED << vault, audit, faults, wf_vars, wd_vars, ms_vars, sc_vars, cl_vars, or_vars >>

SchedulerNext ==
  \/ \E n \in Intervals, b \in BOOLEAN : add_task(n, b)
  \/ scheduler_start
  \/ _run_loop_while
  \/ \E s \in CallbackSeconds, o \in CallbackOutcomes : _run_loop_for(s, o)
  \/ callback_done
  \/ sleep_done
  \/ scheduler_stop
  \/ scheduler_stop_return
  \/ Second

SchedulerSpec == Init /\ [][SchedulerNext]_vars

\* ============================================================== classifier
\* words of a task text
Vocabulary ==
  { "read", "report", "file", "delete", "remove", "pay", "post", "linkedin",
    "reply", "send", "meeting", "password", "contract", "create" }

\* a text has at most this many of the words
MaxWords == 2

\* the pieces of a task text that start with "$"
AmountPieces ==
  { << "$", "5", "0", "0" >>,
    << "$", "5", "0", ".", "5" >>,
    << "$", "5", "0" >>,
    << "$", "2", "0" >>,
    << "$", "1", ",", "0", "0", "0" >>,
    << "$", " ", "7", "5", ".", "5", "0" >> }

\* a text has at most this many pieces that start with "$"
MaxAmounts == 2

ClassifyTexts ==
  [ words : { w \in SUBSET Vocabulary : Cardinality(w) <= MaxWords },
    amounts : UNION { [1..n -> AmountPieces] : n \in 0..MaxAmounts } ]

\* metadata maps: the keys classify reads, absent ("") or with a value
MetadataMaps ==
  [ py : { "dict" },
    source : { "", "filesystem", "gmail", PyNone },
    to : { "", "bob@example.com" },
    from : { "", "al@example.com" } ]

\* the loop over SENSITIVE_KEYWORDS after its first k iterations
RECURSIVE KeywordUpTo(_, _, _)
KeywordUpTo(st, k, content) ==
  IF k = 0 THEN st
  ELSE KeywordStep(KeywordUpTo(st, k - 1, content), Categories[k], content)

\* reasons and risk_level of a classify call: at the start, after the amount
\* rule, after each keyword category, after the recipient rule, the deletion
\* rule and the social media rule
RuleStates(task_content, metadata) ==
  LET action_type == _detect_action_type(task_content, metadata)
      s1 == AmountRule(_extract_amounts(task_content))
      s2 == KeywordUpTo(s1, Len(Categories), task_content)
      s3 == RecipientRule(s2, action_type, metadata)
      s4 == DeleteRule(s3, action_type)
  IN  << [reasons |-> <<>>, risk_level |-> "low"], s1 >>
      \o [ k \in 1..Len(Categories) |-> KeywordUpTo(s1, k, task_content) ]
      \o << s3, s4, SocialRule(s4, action_type) >>

\* one call of HITLClassifier.classify; trace keeps the reasons and the
\* risk_level the call had after each of its rules
classify_call(task_content, metadata) ==
  /\ ~cl_call.made
  /\ cl_call' = [ made |-> TRUE, text |-> task_content,
                  metadata |-> metadata,
                  trace |-> IF AttributeError(metadata) THEN <<>>
                            ELSE RuleStates(task_content, metadata) ]
                @@ classify(task_content, metadata)
  /\ UNCHANGED << vault, now, audit, faults, wf_vars, wd_vars, ms_vars,
                  sc_vars, or_vars >>

ClassifyNext ==
  /\ ~cl_call.made
  /\ \E task_content \in ClassifyTexts, metadata \in MetadataMaps :
        classify_call(task_content, metadata)

ClassifySpec == Init /\ [][ClassifyNext]_vars

\* ================================================================== intake
\* the number of scans on which one file is seen to fail
MaxRetries == 2

\* what the text between the two "---" of a task file can be
Headers == { "yaml", "scalar", "invalid", "none" }

\* the words between the two "---", which are part of the body when the
\* header cannot be loaded
HeaderWords == { "title", "source", "status" }

\* a file *.md that reaches Needs_Action from outside the watchers (put
\* there by hand, or by create_task of the vault MCP server): process_all
\* takes every *.md file of the folder, whatever wrote it
drop_task_file(title, header, text) ==
  /\ created < MaxTasks
  /\ LET filename == TaskFileName(now, title)
         content == [ kind |-> "task", id |-> created + 1, header |-> header,
                      title |-> title, source |-> "manual",
                      header_words |-> IF header = "none" THEN {}
                                       ELSE HeaderWords,
                      body |-> text, notes |-> <<>> ]
     IN  vault' = WriteText(vault, NEEDS_ACTION, filename, content)
  /\ created' = created + 1
  /\ intake' = TRUE
  /\ UNCHANGED << wd_vars, ms_vars, sc_vars, cl_vars, or_vars,
                  now, audit, processed_approvals, callbacks, human_approved,
                  faults >>

\* the scans of the main loop, followed until a file has failed MaxRetries
\* times
IntakeScan ==
  /\ \A e \in DOMAIN audit :
        e.action_type = "task_process_error" => audit[e] < MaxRetries
  /\ ProcessAll

IntakeNext ==
  \/ Tick
  \/ \E title \in Titles, header \in Headers, text \in TaskTexts :
        drop_task_file(title, header, text)
  \/ IntakeScan

IntakeSpec == Init /\ [][IntakeNext]_vars

\* ============================================================ orchestrator
\* the largest value of the clock in the runs of the orchestrator
MaxRunClock == 12

\* Orchestrator.process_interval
process_interval == 10

\* what the environment (the variables of the process and the file .env)
\* says about DRY_RUN
EnvValues == { "unset", "true", "false" }

\* the Gmail watcher: not set up (no Google API library or no
\* credentials.json), or set up with _build_service failing or succeeding
GmailSetups == { "disabled", "service_fails", "service_ok" }

\* Settings(): pydantic reads DRY_RUN from the environment when the object
\* is built; the field's default is True
Settings(environ) ==
  [ dry_run |-> IF environ = "unset" THEN TRUE ELSE environ = "true" ]

\* main() of main.py up to the call of the orchestrator: `from config
\* import settings` at the top of the file has built the settings object
\* from the environment before --dry-run sets DRY_RUN in os.environ
main_start(environ, dry_run_flag, gmail) ==
  /\ orch.pc = "none"
  /\ orch' = [orch EXCEPT
                !.pc = "main",
                !.settings = Settings(environ),
                !.dry_run_flag = dry_run_flag,
                !.environ = IF dry_run_flag THEN "true" ELSE environ,
                !.gmail = gmail]
  /\ UNCHANGED << vault, now, audit, faults, wf_vars, wd_vars, ms_vars,
                  sc_vars, cl_vars, writing, handling >>

\* Orchestrator.setup
setup ==
  /\ orch.pc = "main"
  /\ orch' = [orch EXCEPT
                !.pc = "setup",
                !.watchers = IF orch.gmail = "disabled"
                             THEN << "filesystem" >>
                             ELSE << "filesystem", "gmail" >>,
                !.scheduler = "created"]
  /\ UNCHANGED << vault, now, audit, faults, wf_vars, wd_vars, ms_vars,
                  sc_vars, cl_vars, writing, handling >>

\* Orchestrator.start up to the loop over the watchers
start ==
  /\ orch.pc = "setup"
  /\ ~orch.is_running
  /\ orch' = [orch EXCEPT !.pc = "start_watchers", !.i = 1,
                          !.is_running = TRUE, !.start_time = now]
  /\ audit' = Log(audit, Event("system_started", "none", << "orchestrator" >>,
                               "none", "success", 0))
  /\ UNCHANGED << vault, now, faults, wf_vars, wd_vars, ms_vars,
                  sc_vars, cl_vars, writing, handling >>

\* one turn of the loop over the watchers in Orchestrator.start:
\* FilesystemWatcher.start starts the observer thread and returns;
\* GmailWatcher.start returns when _build_service fails and otherwise runs
\* its own `while self.is_running` loop in the calling thread
start_watcher ==
  /\ orch.pc = "start_watchers"
  /\ orch.i <= Len(orch.watchers)
  /\ LET watcher == orch.watchers[orch.i]
     IN  orch' =
           IF watcher = "gmail" /\ orch.gmail = "service_fails"
           THEN [orch EXCEPT !.i = @ + 1]
           ELSE IF watcher = "gmail"
           THEN [orch EXCEPT !.started = @ \cup { watcher },
                             !.pc = "gmail_loop"]
           ELSE [orch EXCEPT !.started = @ \cup { watcher }, !.i = @ + 1]
  /\ UNCHANGED << vault, now, audit, faults, wf_vars, wd_vars, ms_vars,
                  sc_vars, cl_vars, writing, handling >>

\* the loop of GmailWatcher.start: check(), then time.sleep: one second of
\* it
gmail_loop ==
  /\ orch.pc = "gmail_loop"
  /\ now < MaxRunClock
  /\ now' = now + 1
  /\ UNCHANGED << vault, audit, faults, wf_vars, wd_vars, ms_vars,
                  sc_vars, cl_vars, or_vars >>

\* the end of Orchestrator.start: Scheduler.start, and start returns
start_scheduler ==
  /\ orch.pc = "start_watchers"
  /\ orch.i > Len(orch.watchers)
  /\ orch' = [orch EXCEPT !.pc = "started", !.scheduler = "started"]
  /\ UNCHANGED << vault, now, audit, faults, wf_vars, wd_vars, ms_vars,
                  sc_vars, cl_vars, writing, handling >>

\* Orchestrator.run after setup() and start(): last_process_time is set
run_enter ==
  /\ orch.pc = "started"
  /\ orch' = [orch EXCEPT !.pc = "loop", !.last_process_time = now]
  /\ UNCHANGED << vault, now, audit, faults, wf_vars, wd_vars, ms_vars,
                  sc_vars, cl_vars, writing, handling >>

\* Orchestrator._on_task_approved: it logs the approval, and one more line
\* in dry-run mode; it calls no executor in either mode
_on_task_approved(external_actions, dry_run) == external_actions

\* the vault, the audit log and the state of the Approval Handler after an
\* approval scan that ended with a
AfterApprovals(a) ==
  /\ vault' = a.vault
  /\ audit' = a.audit
  /\ callbacks' = a.callbacks
  /\ processed_approvals' = a.processed_approvals

\* the second call of _process_cycle: process_approvals, whose on_approved
\* callback is _on_task_approved, after process_all ended with r and met
\* nfaults file system errors
_process_cycle_approvals(r, nfaults) ==
  LET approved_tasks == scan_approved(r.vault, processed_approvals)
  IN  \E approved \in Orders(approved_tasks) :
      \E afault \in [approved_tasks -> ApprovalFaults \cup {"none"}] :
        /\ faults + nfaults + NumFaults(afault) <= MaxFaults
        /\ AfterApprovals(process_approvals(
                      [vault |-> r.vault, audit |-> r.audit,
                       callbacks |-> callbacks,
                       processed_approvals |-> processed_approvals,
                       raised |-> FALSE], approved, 1, now, afault))
        /\ faults' = faults + nfaults + NumFaults(afault)

\* Orchestrator._process_cycle: process_all, then process_approvals
_process_cycle ==
  \E tasks \in Orders(Files(vault, NEEDS_ACTION)) :
  \E fault \in [Files(vault, NEEDS_ACTION) -> ProcessFaults \cup {"none"}] :
    /\ _process_cycle_approvals(
          process_all([vault |-> vault, audit |-> audit, raised |-> FALSE],
                      tasks, 1, now, fault),
          NumFaults(fault))
    /\ intake' = FALSE
    /\ orch' = [orch EXCEPT
                  !.last_process_time = now,
                  !.cycles = @ + 1,
                  !.external_actions =
                     _on_task_approved(@, orch.settings.dry_run)]

\* one turn of the loop of Orchestrator.run: a processing cycle when
\* process_interval seconds have passed since the last one, then
\* time.sleep(1)
run_loop ==
  /\ orch.pc = "loop"
  /\ orch.is_running
  /\ now < MaxRunClock
  /\ IF now - orch.last_process_time >= process_interval
     THEN _process_cycle
     ELSE UNCHANGED << vault, audit, callbacks, processed_approvals,
                       faults, intake, orch >>
  /\ now' = now + 1
  /\ UNCHANGED << wd_vars, ms_vars, sc_vars, cl_vars, writing, handling,
                  created, human_approved >>

\* Orchestrator.stop, from the signal handler of run or called directly
stop ==
  /\ orch.pc \in { "start_watchers", "gmail_loop", "started", "loop" }
  /\ orch.is_running
  /\ orch' = [orch EXCEPT !.pc = "stopped", !.is_running = FALSE,
                          !.started = {},
                          !.scheduler = IF @ = "started" THEN "stopped"
                                        ELSE @]
  /\ audit' = Log(audit, Event("system_stopped", "none", << "orchestrator" >>,
                               "none", "success", 0))
  /\ UNCHANGED << vault, now, faults, wf_vars, wd_vars, ms_vars,
                  sc_vars, cl_vars, writing, handling >>

\* the keys of the dictionary Orchestrator.get_status returns
StatusKeys ==
  { "is_running", "start_time", "uptime_seconds", "dry_run", "vault_path",
    "watchers", "scheduler", "pending_tasks", "completed_tasks" }

\* Orchestrator.get_status: the entries the claims are about
get_status ==
  [ is_running |-> orch.is_running,
    dry_run |-> orch.settings.dry_run,
    watchers |-> orch.watchers,
    scheduler |-> orch.scheduler ]

\* a file dropped in Inbox while the filesystem watcher runs
watcher_creates ==
  /\ "filesystem" \in orch.started
  /\ \E title \in Titles, text \in TaskTexts : create_task_file(title, text)

OrchestratorNext ==
  \/ \E environ \in EnvValues, dry_run_flag \in BOOLEAN,
        gmail \in GmailSetups : main_start(environ, dry_run_flag, gmail)
  \/ setup
  \/ start
  \/ start_watcher
  \/ gmail_loop
  \/ start_scheduler
  \/ run_enter
  \/ run_loop
  \/ stop
  \/ watcher_creates

OrchestratorSpec == Init /\ [][OrchestratorNext]_vars

\* ===================================================== approval, by steps
\* process_approvals followed statement by statement, so that the watcher
\* threads and the human act between its steps
OnApprovedOutcomes == { "returns", "raises" }

\* process_approvals: scan_approved
process_approvals_scan ==
  /\ handling.pc = "idle"
  /\ \E tasks \in Orders(scan_approved(vault, processed_approvals)) :
        /\ tasks # <<>>
        /\ handling' = [handling EXCEPT !.pc = "log", !.tasks = tasks,
                                        !.i = 1, !.raised = FALSE]
  /\ UNCHANGED << vault, now, audit, faults, wf_vars, wd_vars, ms_vars,
                  sc_vars, cl_vars, orch, writing >>

\* the task the loop of process_approvals is at
HandledTask == handling.tasks[handling.i]

\* the id of the record HandledTask names (0: the file is gone)
HandledId ==
  IF Exists(vault, APPROVED, HandledTask)
  THEN vault[APPROVED][HandledTask].id ELSE 0

\* the loop of process_approvals goes to its next task
NextHandling ==
  IF handling.i < Len(handling.tasks)
  THEN [handling EXCEPT !.pc = "log", !.i = @ + 1, !.raised = FALSE]
  ELSE [handling EXCEPT !.pc = "idle", !.tasks = <<>>, !.i = 0,
                        !.raised = FALSE]

\* _process_approved_task: the name is added to processed_approvals and the
\* approval is logged
log_approval ==
  /\ handling.pc = "log"
  /\ processed_approvals' = processed_approvals \cup { HandledTask }
  /\ audit' = Log(audit, Event("task_approved", APPROVED, HandledTask,
                               "approved", "success", HandledId))
  /\ handling' = [handling EXCEPT !.pc = "callback"]
  /\ UNCHANGED << vault, now, faults, wd_vars, ms_vars, sc_vars, cl_vars,
                  orch, writing, created, callbacks, human_approved,
                  intake >>

\* a callback whose exception leaves _process_approved_task
call_on_approved_Propagates(outcome) ==
  /\ handling.pc = "callback"
  /\ callbacks' = callbacks (+)
                    SetToBag({[name |-> HandledTask, id |-> HandledId]})
  /\ IF outcome = "raises"
     THEN /\ audit' = Log(audit, Event("approval_process_error", APPROVED,
                                       HandledTask, "none", "failure", 0))
          /\ handling' = NextHandling
     ELSE /\ audit' = audit
          /\ handling' = [handling EXCEPT !.pc = "move"]
  /\ UNCHANGED << vault, now, faults, wd_vars, ms_vars, sc_vars,
                  cl_vars, orch, writing, created, processed_approvals,
                  human_approved, intake >>

\* _process_approved_task: the call of on_approved inside its try
call_on_approved(outcome) ==
  /\ handling.pc = "callback"
  /\ callbacks' = callbacks (+)
                    SetToBag({[name |-> HandledTask, id |-> HandledId]})
  /\ handling' = [handling EXCEPT
                    !.pc = "move",
                    !.raised = (outcome = "raises"),
                    !.raised_names = IF outcome = "raises"
                                     THEN @ \cup { HandledTask } ELSE @]
  /\ UNCHANGED << vault, now, audit, faults, wd_vars, ms_vars, sc_vars,
                  cl_vars, orch, writing, created, processed_approvals,
                  human_approved, intake >>

\* _process_approved_task: _move_to_done, and the except clause of
\* process_approvals when it raises
move_to_done(fault) ==
  /\ handling.pc = "move"
  /\ faults + (IF fault = "none" THEN 0 ELSE 1) <= MaxFaults
  /\ IF Exists(vault, APPROVED, HandledTask)
     THEN LET r == _move_to_done(
                     [vault |-> vault, audit |-> audit,
                      callbacks |-> callbacks,
                      processed_approvals |-> processed_approvals,
                      raised |-> FALSE], HandledTask, now, fault)
          IN  /\ vault' = r.vault
              /\ audit' =
                   IF r.raised
                   THEN Log(r.audit, Event("approval_process_error",
                                           APPROVED, HandledTask, "none",
                                           "failure", 0))
                   ELSE r.audit
              /\ faults' = faults + (IF r.raised THEN 1 ELSE 0)
     ELSE /\ vault' = vault
          /\ audit' = Log(audit, Event("approval_process_error", APPROVED,
                                       HandledTask, "none", "failure", 0))
          /\ faults' = faults
  /\ handling' = NextHandling
  /\ UNCHANGED << now, wf_vars, wd_vars, ms_vars, sc_vars, cl_vars,
                  orch, writing >>

\* the Task Processor scan of the same thread, made between two calls of
\* process_approvals
process_all_scan ==
  /\ handling.pc = "idle"
  /\ ProcessAll

ApprovalNext ==
  \/ Tick
  \/ \E title \in Titles, text \in TaskTexts : create_task_file(title, text)
  \/ process_all_scan
  \/ \E name \in HumanFiles(vault, PENDING_APPROVAL) :
        HumanMove(PENDING_APPROVAL, APPROVED, name)
  \/ process_approvals_scan
  \/ log_approval
  \/ \E outcome \in OnApprovedOutcomes : call_on_approved(outcome)
  \/ \E fault \in ApprovalFaults \cup { "none" } : move_to_done(fault)

ApprovalSpec == Init /\ [][ApprovalNext]_vars

\* ========================================================= step approval
\* the multi-step runner together with the human and the Approval Handler:
\* the approval request of a paused step is a file of Pending_Approval
StepApprovalNext ==
  \/ Tick
  \/ \E flags \in StepLists, outcome \in PersistOutcomes :
        create_task(flags, outcome)
  \/ \E task_id \in AdvanceIds, step_result \in StepResults,
        outcome \in AdvanceOutcomes :
        advance(task_id, step_result, outcome)
  \/ \E name \in HumanFiles(vault, PENDING_APPROVAL) :
        HumanMove(PENDING_APPROVAL, APPROVED, name)
  \/ ProcessApprovals

StepApprovalSpec == Init /\ [][StepApprovalNext]_vars

\* ============================================================= write race
\* Path.write_text is open(path, "w"), write, close: the file exists, empty,
\* from the open on, and holds its text only after the write.  The watcher
\* threads run beside the orchestrator tick, which can list and read the
\* file between the two.

\* the file as open(path, "w") leaves it: no text at all
EmptyFile(id) ==
  [ kind |-> "task", id |-> id, header |-> "none", title |-> <<>>,
    source |-> "", header_words |-> {},
    body |-> [words |-> {}, amounts |-> <<>>], notes |-> <<>> ]

\* BaseWatcher.create_task_file up to the open of write_text
write_text_open(title, text) ==
  /\ created < MaxTasks
  /\ LET filename == TaskFileName(now, title)
     IN  /\ vault' = WriteText(vault, NEEDS_ACTION, filename,
                               EmptyFile(created + 1))
         /\ writing' = writing \cup
                         { [ name |-> filename,
                             content |-> TaskFile(created + 1, title,
                                                  "filesystem", text) ] }
  /\ created' = created + 1
  /\ intake' = TRUE
  /\ UNCHANGED << wd_vars, ms_vars, sc_vars, cl_vars, orch, handling,
                  now, audit, processed_approvals, callbacks,
                  human_approved, faults >>

\* the files the descriptor of the write w refers to: the file that was
\* opened, under the name and in the folder a rename has given it since
OpenedFiles(v, w) ==
  { f \in { [folder |-> d, name |-> n] : d \in Folders,
                                          n \in UNION { Files(v, x) :
                                                          x \in Folders } } :
      /\ f.name \in Files(v, f.folder)
      /\ v[f.folder][f.name] = EmptyFile(w.content.id) }

RECURSIVE WriteThrough(_, _, _)
WriteThrough(v, files, content) ==
  IF files = {} THEN v
  ELSE LET f == CHOOSE x \in files : TRUE
       IN  WriteThrough(WriteText(v, f.folder, f.name, content),
                        files \ {f}, content)

\* the write and the close of write_text, and the rest of
\* create_task_file: the text goes to the file that was opened, wherever it
\* is by now, and the creation is logged
write_text_close(w) ==
  /\ w \in writing
  /\ vault' = WriteThrough(vault, OpenedFiles(vault, w), w.content)
  /\ writing' = writing \ { w }
  /\ audit' = Log(audit, Event("task_created", NEEDS_ACTION, w.name, "none",
                               "success", w.content.id))
  /\ UNCHANGED << wd_vars, ms_vars, sc_vars, cl_vars, orch, handling,
                  now, created, processed_approvals, callbacks,
                  human_approved, faults, intake >>

WriteRaceNext ==
  \/ Tick
  \/ \E title \in Titles, text \in TaskTexts : write_text_open(title, text)
  \/ \E w \in writing : write_text_close(w)
  \/ ProcessAll
  \/ ProcessApprovals

WriteRaceSpec == Init /\ [][WriteRaceNext]_vars

\* =================================================================== crash
\* the points of create_task and advance at which the process can die:
\* before the state is written ("before_write": in advance, the approval
\* request of the next step is written by then), and inside write_text of
\* _persist_state, after the open has truncated the state file ("in_write")
CrashPoints == { "before_write", "in_write" }

\* what is on disk when the process dies at `point` of a call that would
\* write `task`
CrashedDisk(disk, task, point) ==
  IF point = "in_write" THEN Put(disk, task.id, EmptyStateFile(task.id))
  ELSE disk

\* what resume_all recovers from the state files of disk
Recovered(disk) == ResumeEach(<<>>, disk, DOMAIN disk, {})

\* the process dies in a call that would have written `task`: the memory
\* of the runner is gone (before, after: what a restart recovers from the
\* state files as they were before the call and as the call would have
\* left them)
Crash(op, task, point) ==
  /\ faults < MaxFaults
  /\ faults' = faults + 1
  /\ _tasks' = <<>>
  /\ multistep' = CrashedDisk(multistep, task, point)
  /\ ms_last' = [ op |-> "crash", id |-> task.id, result |-> point,
                  seq |-> 1 - ms_last.seq,
                  before |-> Recovered(multistep),
                  after |-> Recovered(Put(multistep, task.id,
                                          YamlDump(task))) ]

\* the process dies in RalphWiggumLoop.create_task
create_task_crash(flags, point) ==
  /\ ms_created < MaxMsTasks
  /\ LET task_id == "ms" \o ToString(ms_created + 1)
     IN  Crash("create_task", MultiStepTask(task_id, flags, now), point)
  /\ ms_created' = ms_created + 1
  /\ UNCHANGED << vault, now, audit, wf_vars, wd_vars, sc_vars, cl_vars,
                  or_vars, ms_high >>

\* the process dies in RalphWiggumLoop.advance, after the steps that come
\* before _persist_state
advance_crash(task_id, step_result, point) ==
  /\ task_id \in DOMAIN _tasks
  /\ current_step_obj(_tasks[task_id]) # 0
  /\ LET task == _tasks[task_id]
         current == current_step_obj(task)
         next_index == task.current_step + 1
         done == [ task EXCEPT !.steps[current].status = "completed",
                               !.steps[current].result = step_result,
                               !.updated = now ]
     IN  IF next_index >= Len(task.steps)
         THEN /\ Crash("advance",
                       [ done EXCEPT !.status = "completed",
                                     !.current_step = next_index ], point)
              /\ vault' = vault
         ELSE LET approval == done.steps[next_index + 1].requires_approval
                  moved == [ done EXCEPT
                               !.current_step = next_index,
                               !.status = IF approval THEN "paused"
                                          ELSE "in_progress" ]
              IN  /\ Crash("advance", moved, point)
                  /\ vault' = IF approval
                              THEN _create_approval_request(vault, moved, now)
                              ELSE vault
  /\ UNCHANGED << now, audit, wf_vars, wd_vars, sc_vars, cl_vars, or_vars,
                  ms_created, ms_high >>

CrashNext ==
  \/ Tick
  \/ \E flags \in StepLists, outcome \in PersistOutcomes :
        create_task(flags, outcome)
  \/ \E task_id \in AdvanceIds, step_result \in StepResults,
        outcome \in AdvanceOutcomes :
        advance(task_id, step_result, outcome)
  \/ \E flags \in StepLists, point \in CrashPoints :
        create_task_crash(flags, point)
  \/ \E task_id \in AdvanceIds, step_result \in StepResults,
        point \in CrashPoints :
        advance_crash(task_id, step_result, point)
  \/ resume_all({})

CrashSpec == Init /\ [][CrashNext]_vars

\* ================================================================ claims
\* the events logged by the step
NewEvents ==
  { e \in BagToSet(audit') : CopiesIn(e, audit') > CopiesIn(e, audit) }

\* the calls of on_approved made by the step
NewCallbacks ==
  { c \in BagToSet(callbacks') :
      CopiesIn(c, callbacks') > CopiesIn(c, callbacks) }

\* ids of the tasks the Task Processor classified as requiring approval
RiskyIds ==
  { e.id : e \in { x \in BagToSet(audit) :
                     /\ x.action_type = "plan_created"
                     /\ x.parameters = "requires_approval=True" } }

\* ids of the tasks on_approved was called for
CalledBackIds == { c.id : c \in BagToSet(callbacks) }

\* ids of the task files of Done whose name carries `marker`
ArchivedIds(v, marker) ==
  { v[DONE][n].id :
      n \in { x \in Files(v, DONE) :
                x[2] = marker /\ v[DONE][x].kind = "task" } }

\* a step of approve_task or of a human that moves a file from
\* Pending_Approval to Approved
HumanApprovalStep ==
  \/ \E task_name \in CallNames(vault) : approve_task(task_name)
  \/ \E name \in HumanFiles(vault, PENDING_APPROVAL) :
       HumanMove(PENDING_APPROVAL, APPROVED, name)

C1_Gate ==
  \A id \in RiskyIds :
     id \in CalledBackIds \cup ArchivedIds(vault, "completed")
       => id \in human_approved

\* C1: a task classified as requiring approval gets its on_approved call and
\* its archival as completed only after a human or approve_task moved it
\* from Pending_Approval to Approved, and only those two move a task from
\* Pending_Approval to Approved.
C1_ApprovalGate ==
  [][ /\ C1_Gate'
      /\ Approvals(vault, vault') # {} => HumanApprovalStep ]_vars

\* a task classified as requiring approval was approved by a human, called
\* back and archived as completed
C1_Witness ==
  \E id \in RiskyIds :
     /\ id \in human_approved
     /\ id \in CalledBackIds
     /\ id \in ArchivedIds(vault, "completed")

\* process_task handled the file task_name of Needs_Action in this step and
\* did not raise
HandledWithoutError(task_name) ==
  /\ \E e \in NewEvents :
        /\ e.action_type = "plan_created"
        /\ e.id = vault[NEEDS_ACTION][task_name].id
  /\ ~ \E e \in NewEvents :
        /\ e.action_type = "task_process_error"
        /\ e.name = task_name

\* C3: a task that process_task handles without error leaves Needs_Action;
\* it ends in Pending_Approval with a pending event if classify requires
\* approval, else in Approved with an auto_approved event.
C3_Routing ==
  [][ \A task_name \in Files(vault, NEEDS_ACTION) :
        LET content == vault[NEEDS_ACTION][task_name]
            parsed == _parse_task(content)
            decision == classify(parsed.body, parsed.metadata)
        IN  HandledWithoutError(task_name) =>
              /\ content.id \notin TaskIds(vault', NEEDS_ACTION)
              /\ IF decision.requires_approval
                 THEN /\ content.id \in TaskIds(vault', PENDING_APPROVAL)
                      /\ content.id \notin TaskIds(vault', APPROVED)
                      /\ Event("task_pending_approval", PENDING_APPROVAL,
                               task_name, "pending", "success", content.id)
                           \in NewEvents
                 ELSE /\ content.id \in TaskIds(vault', APPROVED)
                      /\ content.id \notin TaskIds(vault', PENDING_APPROVAL)
                      /\ Event("task_auto_approved", APPROVED, task_name,
                               "auto_approved", "success", content.id)
                           \in NewEvents ]_vars

\* "Pay $500 to CloudTech" was routed to Pending_Approval and "Read quarterly
\* report" to Approved
C3_Witness ==
  /\ \E n \in Files(vault, PENDING_APPROVAL) :
        /\ vault[PENDING_APPROVAL][n].kind = "task"
        /\ vault[PENDING_APPROVAL][n].body.amounts = Pay500.amounts
        /\ \E e \in BagToSet(audit) :
              e.approval_status = "pending" /\ e.name = n
  /\ \E n \in Files(vault, APPROVED) :
        /\ vault[APPROVED][n].kind = "task"
        /\ vault[APPROVED][n].body.amounts = ReadReport.amounts
        /\ \E e \in BagToSet(audit) :
              e.approval_status = "auto_approved" /\ e.name = n

\* C4: on_approved is called and the approved event is logged at most once
\* for each record found in Approved.
C4_AtMostOnce ==
  /\ \A c \in BagToSet(callbacks) : CopiesIn(c, callbacks) <= 1
  /\ \A e \in BagToSet(audit) :
        e.action_type = "task_approved" => CopiesIn(e, audit) <= 1

\* a record was processed, stayed in Approved and was scanned again
C4_Witness ==
  \E n \in Files(vault, APPROVED) :
     /\ n \in processed_approvals
     /\ CopiesIn([name |-> n, id |-> vault[APPROVED][n].id], callbacks) = 1
\* the four locations that hold a task record
StateFolders == { NEEDS_ACTION, PENDING_APPROVAL, APPROVED, DONE }

\* C2: every task record is in exactly one of Needs_Action, Pending_Approval,
\* Approved and Done, and no file name occurs in two of them.
C2_ExactlyOneLocation ==
  /\ \A id \in 1..created :
        Cardinality({ d \in StateFolders : id \in TaskIds(vault, d) }) = 1
  /\ \A d1 \in StateFolders : \A d2 \in StateFolders \ {d1} :
        Files(vault, d1) \cap Files(vault, d2) = {}

\* a step of one of the transitions of the state machine
TransitionStep ==
  \/ ProcessAll
  \/ ProcessApprovals
  \/ \E task_name \in CallNames(vault) : approve_task(task_name)
  \/ \E task_name \in CallNames(vault), reason \in Reasons :
        reject_task(task_name, reason)

\* C5: a transition never replaces a record that already exists under the
\* destination name in Pending_Approval, Approved or Done.
C5_NoSilentOverwrite ==
  [][ TransitionStep =>
        \A d \in { PENDING_APPROVAL, APPROVED, DONE } :
          \A n \in Files(vault, d) \cap Files(vault', d) :
             vault'[d][n] = vault[d][n] ]_vars

\* C6: a record of Done stays in Done, under its name and with its content.
C6_DoneAppendOnly ==
  [][ \A n \in Files(vault, DONE) :
        /\ n \in Files(vault', DONE)
        /\ vault'[DONE][n] = vault[DONE][n] ]_vars

\* C7: a task whose relocation raised during process_approvals is still in
\* Approved and is processed again by the next process_approvals call.
C7_RetryAfterError ==
  [][ \A e \in NewEvents :
        e.action_type = "approval_process_error" =>
          /\ e.name \in Files(vault', APPROVED)
          /\ e.name \in scan_approved(vault', processed_approvals') ]_vars

\* C8: after process_approvals, a task it processed and the plan files of
\* that task are all still in Approved or all in Done.
C8_NeverPartiallyArchived ==
  [][ \A n \in processed_approvals' \ processed_approvals :
        LET plans == PlanFiles(vault, APPROVED, n)
        IN  \/ /\ n \in Files(vault', APPROVED)
               /\ plans \subseteq Files(vault', APPROVED)
            \/ /\ n \notin Files(vault', APPROVED)
               /\ DoneName(now, "completed", n) \in Files(vault', DONE)
               /\ \A p \in plans :
                     /\ p \notin Files(vault', APPROVED)
                     /\ DoneName(now, "completed", p) \in Files(vault', DONE)
    ]_vars

\* C9, as claimed: a Task Processor scan that follows a scan with no file
\* written to Needs_Action in between changes no file and logs no event.
C9_SecondScanIdle ==
  [][ (ProcessAll /\ ~intake) => (vault' = vault /\ audit' = audit) ]_vars

\* the ids of the files the step created or rewrote in folder d
Written(d) ==
  { vault'[d][n].id :
      n \in { x \in Files(vault', d) :
                x \notin Files(vault, d) \/ vault'[d][x] # vault[d][x] } }

\* C9, amended: with no file written to Needs_Action since the last scan,
\* the files still in Needs_Action are those on which process_task raised,
\* and a scan plans, relocates and logs only tasks that are in Needs_Action
\* when it runs: it does nothing for a task that has left Needs_Action, and
\* nothing at all when the scan before it left Needs_Action empty.
C9_SecondScanRetriesOnly ==
  [][ /\ ~intake' =>
           \A n \in Files(vault', NEEDS_ACTION) :
              \E e \in BagToSet(audit') :
                 e.action_type = "task_process_error" /\ e.name = n
      /\ ProcessAll =>
           /\ \A d \in Folders :
                 Written(d) \subseteq TaskIds(vault, NEEDS_ACTION)
           /\ \A d \in Folders \ { NEEDS_ACTION } :
                 Files(vault, d) \subseteq Files(vault', d)
           /\ \A e \in NewEvents :
                 \/ e.id \in TaskIds(vault, NEEDS_ACTION)
                 \/ /\ e.action_type = "task_process_error"
                    /\ e.name \in Files(vault, NEEDS_ACTION) ]_vars

\* a scan raised on a task, and the scan after it routed that task
C9_Witness ==
  /\ ~intake
  /\ Files(vault, NEEDS_ACTION) = {}
  /\ \E e \in BagToSet(audit) :
        /\ e.action_type = "task_process_error"
        /\ \E r \in BagToSet(audit) :
              /\ r.action_type \in { "task_pending_approval",
                                     "task_auto_approved" }
              /\ r.name = e.name

\* the reasons as the rejection note shows them
ShownReasons == { "No reason provided" } \cup (Reasons \ { "" })

\* C10: reject_task on a task of Pending_Approval appends a note with the
\* time and the reason and moves the task from Pending_Approval to Done
\* under a name with the REJECTED marker; from then on the task is never in
\* Approved and on_approved is never called for it.
C10_Rejection ==
  [][ /\ \A e \in NewEvents :
           LET n == SubSeq(e.name, 3, Len(e.name))
           IN  (/\ e.action_type = "task_rejected"
                /\ n \in Files(vault, PENDING_APPROVAL)
                /\ vault[PENDING_APPROVAL][n].kind = "task") =>
                 LET old == vault[PENDING_APPROVAL][n]
                     new == vault'[DONE][e.name]
                 IN  /\ e.name = DoneName(now, "REJECTED", n)
                     /\ e.name \in Files(vault', DONE)
                     /\ n \notin Files(vault', PENDING_APPROVAL)
                     /\ new.id = old.id
                     /\ new.body = old.body
                     /\ Len(new.notes) = Len(old.notes) + 1
                     /\ SubSeq(new.notes, 1, Len(old.notes)) = old.notes
                     /\ new.notes[Len(new.notes)].date = now
                     /\ new.notes[Len(new.notes)].reason \in ShownReasons
                     /\ old.id \notin TaskIds(vault', APPROVED)
                     /\ NewCallbacks = {}
      /\ \A id \in ArchivedIds(vault, "REJECTED") :
           /\ id \notin TaskIds(vault', APPROVED)
           /\ \A c \in NewCallbacks : c.id # id ]_vars

\* a task was rejected: it is in Done under a REJECTED name, with its note
C10_Witness ==
  \E n \in Files(vault, DONE) :
     /\ n[2] = "REJECTED"
     /\ vault[DONE][n].kind = "task"
     /\ Len(vault[DONE][n].notes) = 1
     /\ \E e \in BagToSet(audit) :
           e.action_type = "task_rejected" /\ e.name = n
\* ------------------------------------------------------ Watchdog claims
\* the alert artifacts of Pending_Approval that name the watcher
AlertsFor(v, name) ==
  { n \in Files(v, PENDING_APPROVAL) :
      /\ v[PENDING_APPROVAL][n].kind = "alert"
      /\ v[PENDING_APPROVAL][n].watcher = name }

\* the step is one iteration of the monitor loop
HealthCheckStep == checks' = checks + 1

\* C11: a watcher that is not running at any health check, and that no
\* restart brings back, gets one restart attempt per health check up to
\* three and never a fourth, and once the attempts are used up exactly one
\* alert artifact for it is in Pending_Approval, whatever the number of
\* health checks that follow
C11_ThreeAttemptsOneAlert ==
  \A name \in WatcherNames :
    (checks >= 1 /\ wd_trace[name].down) =>
       /\ wd_trace[name].attempts = Min(checks, max_restart_attempts)
       /\ checks > max_restart_attempts =>
            Cardinality(AlertsFor(vault, name)) = 1

\* C12: a watcher that every health check finds unhealthy (not running, or
\* stale) is not restarted without end: when it was found unhealthy by more
\* health checks than the three restart attempts and the check that
\* follows them, and it is still stale, an alert artifact that names it is
\* in Pending_Approval
C12_BoundedRestartsThenAlert ==
  \A name \in WatcherNames :
    LET last == watchers[name].last_check
    IN  ( /\ wd_trace[name].unhealthy
          /\ checks > max_restart_attempts + 1
          /\ last # None
          /\ now - last[1] > 300 ) =>
            AlertsFor(vault, name) # {}

RECURSIVE SleptFor(_, _)
\* the seconds the restart attempts of one health check waited
SleptFor(trace, list) ==
  IF list = <<>> THEN 0
  ELSE (IF trace[Head(list)].restart = <<>> THEN 0
        ELSE trace[Head(list)].restart[1].backoff)
       + SleptFor(trace, Tail(list))

\* C13: each watcher name has its own attempt counter; a restart attempt
\* made at counter value n waits min(2^n, 60) seconds, sets the counter to
\* 0 if the watcher runs afterwards and to n + 1 if not; a counter changes
\* in no other way and is never above 3
C13_CounterAndBackoff ==
  [][ \A name \in WatcherNames :
        /\ _restart_counts'[name] <= max_restart_attempts
        /\ IF HealthCheckStep /\ wd_trace'[name].restart # <<>>
           THEN LET r == wd_trace'[name].restart[1]
                    n == _restart_counts[name]
                IN  /\ r.count = n
                    /\ r.backoff = Min(2 ^ n, 60)
                    /\ now' = now + SleptFor(wd_trace', WatcherList)
                                  + health_check_interval
                    /\ _restart_counts'[name] =
                         IF watchers'[name].is_running THEN 0 ELSE n + 1
           ELSE _restart_counts'[name] = _restart_counts[name] ]_vars

\* a third attempt waited 4 seconds and failed, while the counter of the
\* other watcher went back to 0 after a restart
C13_Witness ==
  \E name \in WatcherNames, other \in WatcherNames :
    /\ name # other
    /\ wd_trace[name].restart # <<>>
    /\ wd_trace[name].restart[1].count = 2
    /\ wd_trace[name].restart[1].backoff = 4
    /\ _restart_counts[name] = 3
    /\ wd_trace[other].attempts >= 1
    /\ watchers[other].is_running
    /\ _restart_counts[other] = 0

\* C14: a health check calls the restart procedure for a watcher exactly
\* if the watcher is not running or its last_check is more than 300 seconds
\* old; a watcher that is running and not stale is left as it is
C14_RestartIffUnhealthy ==
  [][ HealthCheckStep =>
        \A name \in WatcherNames :
          LET t == wd_trace'[name].at
              last == watchers[name].last_check
              unhealthy == \/ ~watchers[name].is_running
                           \/ (last # None /\ t - last[1] > 300)
          IN  /\ wd_trace'[name].invoked <=> unhealthy
              /\ ~unhealthy =>
                   /\ watchers'[name] = watchers[name]
                   /\ wd_trace'[name].restart = <<>>
                   /\ _restart_counts'[name] = _restart_counts[name]
                   /\ AlertsFor(vault', name) = AlertsFor(vault, name) ]_vars

\* one health check restarted a running watcher whose last poll was too
\* old and left alone a running watcher that had polled in time
C14_Witness ==
  \E name \in WatcherNames, other \in WatcherNames :
    /\ checks >= 1
    /\ wd_trace[name].was_running
    /\ wd_trace[name].invoked
    /\ wd_trace[name].restart # <<>>
    /\ wd_trace[other].was_running
    /\ ~wd_trace[other].invoked
    /\ watchers[other].last_check # None
    /\ wd_trace[other].at = wd_trace[name].at + 1

\* --------------------------------------------- multi-step runner claims
\* the step at current_step requires approval and was not completed, which
\* advance does once the approval is granted
AwaitsApproval(task) ==
  /\ current_step_obj(task) # 0
  /\ task.steps[current_step_obj(task)].requires_approval
  /\ task.steps[current_step_obj(task)].status = "pending"

\* C15: a task of the live table is paused exactly if the step at
\* current_step requires approval and approval was not granted for it yet
C15_PausedIffAwaitsApproval ==
  \A id \in DOMAIN _tasks :
    _tasks[id].status = "paused" <=> AwaitsApproval(_tasks[id])

\* the approval requests of Pending_Approval for step k of task id
ApprovalRequests(v, id, k) ==
  { n \in Files(v, PENDING_APPROVAL) :
      /\ v[PENDING_APPROVAL][n].kind = "approval"
      /\ v[PENDING_APPROVAL][n].multistep_id = id
      /\ v[PENDING_APPROVAL][n].step_index = k }

\* the step is a call of the runner
CallStep(op) == ms_last'.seq # ms_last.seq /\ ms_last'.op = op

\* the step is an advance call that returned and moved task id to a step
AdvancedTo(id) ==
  /\ CallStep("advance")
  /\ ms_last'.id = id
  /\ ms_last'.result = "True"
  /\ id \in DOMAIN _tasks /\ id \in DOMAIN _tasks'
  /\ _tasks'[id].current_step = _tasks[id].current_step + 1

C17_CompletedIffNoStepLeft ==
  \A id \in DOMAIN _tasks :
    _tasks[id].status = "completed"
      <=> _tasks[id].current_step = Len(_tasks[id].steps)

\* C18: the current_step of a task is never above the number of steps, an
\* advance call does not lower it, and after a restart the resume_all of
\* the new runner does not load the task with a current_step below a
\* value it had before; advance on a completed task returns False and
\* changes nothing
C18_CurrentStepMonotonic ==
  [][ /\ \A id \in DOMAIN _tasks' :
           /\ _tasks'[id].current_step <= Len(_tasks'[id].steps)
           /\ (CallStep("advance") /\ id \in DOMAIN _tasks) =>
                _tasks'[id].current_step >= _tasks[id].current_step
           /\ (CallStep("resume_all") /\ _tasks = <<>>) =>
                _tasks'[id].current_step >= ms_high[id]
      /\ \A id \in DOMAIN _tasks :
           ( /\ _tasks[id].status = "completed"
             /\ CallStep("advance")
             /\ ms_last'.id = id ) =>
               /\ ms_last'.result = "False"
               /\ _tasks' = _tasks
               /\ multistep' = multistep
               /\ vault' = vault ]_vars

\* C19: when create_task or advance has returned, the state file of the
\* task holds the state the task has in memory
C19_PersistedAfterEveryCall ==
  ( /\ ms_last.op \in { "create_task", "advance" }
    /\ ms_last.result # "raised"
    /\ ms_last.id \in DOMAIN _tasks ) =>
      /\ ms_last.id \in DOMAIN multistep
      /\ multistep[ms_last.id] = YamlDump(_tasks[ms_last.id])

\* the state a state file had in memory when it was written
Persisted(doc) ==
  [ current_step |-> doc.current_step, status |-> doc.status,
    steps |-> [i \in DOMAIN doc.steps |-> doc.steps[i].status] ]

\* the same of a task of the live table
Loaded(task) ==
  [ current_step |-> task.current_step, status |-> task.status,
    steps |-> [i \in DOMAIN task.steps |-> task.steps[i].status] ]

\* C20: resume_all on a new runner, when every state file can be read,
\* loads exactly the records whose status is pending, in_progress or
\* paused, each with the current_step, status and step statuses of its
\* state file, and leaves the state files as they are
C20_ResumeRoundTrip ==
  [][ ( /\ _tasks = <<>>
        /\ CallStep("resume_all")
        /\ faults' = faults ) =>
          /\ DOMAIN _tasks' =
               { id \in DOMAIN multistep :
                   multistep[id].status \in
                     { "pending", "in_progress", "paused" } }
          /\ \A id \in DOMAIN _tasks' :
               Loaded(_tasks'[id]) = Persisted(multistep[id])
          /\ multistep' = multistep ]_vars

\* the loop thread takes a step of its for loop
ForStep == sc_thread.pc = "for" /\ sc_thread' # sc_thread

\* the callback of the job under examination returns or raises
CallbackEnds == sc_thread.pc = "callback" /\ sc_thread'.pc # "callback"

\* C21: in each tick of the scheduler loop every job whose next_run <= now
\* is invoked exactly once and a job that is not due is not invoked; when
\* its callback returns or raises, next_run is set to now + interval, so the
\* job is not due again in the same tick and is not invoked in a burst for
\* the intervals it missed.
C21_OncePerTick ==
  [][ /\ \A j \in DOMAIN sc_tick'.calls : sc_tick'.calls[j] <= 1
      /\ ForStep /\ sc_thread.i <= Len(sc_tasks) =>
           IF sc_tasks[sc_thread.i].next_run <= now
           THEN /\ sc_thread'.pc = "callback"
                /\ sc_tick'.calls[sc_thread.i] = 1
           ELSE /\ sc_thread'.pc = "for"
                /\ sc_tick' = sc_tick
      /\ CallbackEnds =>
           /\ sc_tasks'[sc_thread.i].next_run =
                now + sc_tasks[sc_thread.i].interval_seconds
           /\ ~should_run(sc_tasks'[sc_thread.i], now')
           /\ \A j \in DOMAIN sc_tasks :
                j # sc_thread.i => sc_tasks'[j] = sc_tasks[j]
    ]_vars

\* a job of interval 1 whose callback took 6 seconds ran once and failed
\* once, was invoked once in this tick and is due one second from now
C21_Witness ==
  \E i \in DOMAIN sc_tasks :
    /\ sc_tasks[i].interval_seconds = 1
    /\ sc_tasks[i].run_count >= 1
    /\ sc_tasks[i].error_count >= 1
    /\ sc_tick.calls[i] = 1
    /\ sc_thread.pc = "for"
    /\ now >= 6
    /\ sc_tasks[i].next_run = now + 1

\* C22: a callback that raises is caught by run and counted in the error
\* counter of its job only; the loop thread goes on with the next job, ends
\* only after stop, and every job that is due later in a tick in which a
\* callback raised is still invoked.
C22_FailureIsolated ==
  [][ /\ CallbackEnds /\ sc_thread.outcome = "raises" =>
           /\ sc_tasks'[sc_thread.i].error_count =
                sc_tasks[sc_thread.i].error_count + 1
           /\ sc_tasks'[sc_thread.i].run_count =
                sc_tasks[sc_thread.i].run_count
           /\ \A j \in DOMAIN sc_tasks :
                j # sc_thread.i => sc_tasks'[j] = sc_tasks[j]
           /\ sc_thread'.pc = "for"
           /\ sc_thread'.i = sc_thread.i + 1
      /\ sc_thread'.pc = "exited" => ~sc_is_running'
      /\ ( /\ ForStep
           /\ sc_tick.raised
           /\ sc_thread.i <= Len(sc_tasks)
           /\ sc_tasks[sc_thread.i].next_run <= now ) =>
             sc_thread'.pc = "callback"
      /\ sc_thread.pc = "sleep" /\ sc_is_running' /\ sc_thread' # sc_thread =>
             sc_thread'.pc = "while"
    ]_vars

\* the callback of the first job raised in this tick, was counted, and the
\* callback of the second job is running
C22_Witness ==
  /\ Len(sc_tasks) = 2
  /\ sc_tick.raised
  /\ sc_tasks[1].error_count >= 1
  /\ sc_thread.pc = "callback"
  /\ sc_thread.i = 2
  /\ sc_is_running

\* C24: after stop() has returned on the Scheduler, its loop invokes no
\* further job callback.
C24_NoCallbackAfterStop ==
  [][ sc_stop.phase = "returned" =>
        ~(ForStep /\ sc_thread'.pc = "callback") ]_vars

\* a step of a watcher thread: BaseWatcher.create_task_file wrote a task
WatcherStep == created' = created + 1

\* C23: only the orchestrator tick relocates records: a step of a watcher
\* thread adds a new record to Needs_Action and leaves every record that is
\* already in a state location where it is, with the content it had.
C23_WatchersOnlyAdd ==
  [][ WatcherStep =>
        /\ \A d \in StateFolders : \A n \in Files(vault, d) :
             n \in Files(vault', d) /\ vault'[d][n] = vault[d][n]
        /\ \A d \in StateFolders \ { NEEDS_ACTION } :
             Files(vault', d) = Files(vault, d)
        /\ Cardinality(Files(vault', NEEDS_ACTION)) =
             Cardinality(Files(vault, NEEDS_ACTION)) + 1
    ]_vars

\* the amount, in cents, that a piece of text starting with "$" states
Denotes(piece) ==
  CASE piece = << "$", "5", "0", "0" >> -> 50000
    [] piece = << "$", "5", "0", ".", "5" >> -> 5050
    [] piece = << "$", "5", "0" >> -> 5000
    [] piece = << "$", "2", "0" >> -> 2000
    [] piece = << "$", "1", ",", "0", "0", "0" >> -> 100000
    [] piece = << "$", " ", "7", "5", ".", "5", "0" >> -> 7550

\* the text contains a dollar amount greater than 50
StatesOver50(text) ==
  \E i \in DOMAIN text.amounts : Denotes(text.amounts[i]) > 5000

\* C25: for every task text that contains a dollar amount greater than 50
\* and every metadata map, classify returns requires_approval = true and
\* risk_level = high, with a reason that records the amount and the 50
\* threshold.
C25_AmountOver50 ==
  cl_call.made /\ StatesOver50(cl_call.text) =>
    /\ ~cl_call.raised
    /\ cl_call.requires_approval
    /\ cl_call.risk_level = "high"
    /\ \E i \in DOMAIN cl_call.reasons :
         /\ cl_call.reasons[i][1] = "amount_exceeds_50"
         /\ \E j \in DOMAIN cl_call.text.amounts :
              cl_call.reasons[i][2] = ToString(Denotes(cl_call.text.amounts[j]))

\* the text contains "delete" or "remove"
SaysDelete(text) == In("delete", text) \/ In("remove", text)

\* C26: for every task text that contains "delete" or "remove", every
\* metadata map and whatever dollar amounts the text has, classify returns
\* requires_approval = true and risk_level = high.
C26_DeleteNeedsApproval ==
  cl_call.made /\ SaysDelete(cl_call.text) =>
    /\ ~cl_call.raised
    /\ cl_call.requires_approval
    /\ cl_call.risk_level = "high"

\* reasons and risk_level when the last rule of the call was applied
Recorded == cl_call.trace[Len(cl_call.trace)]

\* "Read the quarterly report file"
ReadReportFile ==
  [words |-> {"read", "quarterly", "report", "file"}, amounts |-> <<>>]

\* C27: classify returns requires_approval = true if and only if at least
\* one reason was recorded or the final risk_level is not low; when no
\* reason was recorded the decision is auto-approved with risk_level low and
\* carries the single default reason, as for "Read the quarterly report
\* file" with empty metadata.
C27_ApprovalIffReasonOrRisk ==
  /\ cl_call.made /\ ~cl_call.raised =>
       /\ cl_call.risk_level = Recorded.risk_level
       /\ cl_call.requires_approval <=>
            (Len(Recorded.reasons) > 0 \/ cl_call.risk_level # "low")
       /\ Len(Recorded.reasons) > 0 => cl_call.reasons = Recorded.reasons
       /\ Len(Recorded.reasons) = 0 =>
            /\ ~cl_call.requires_approval
            /\ cl_call.risk_level = "low"
            /\ cl_call.reasons = << <<"no_sensitive_content">> >>
  /\ LET d == classify(ReadReportFile, NoMetadata)
     IN  /\ ~d.raised /\ ~d.requires_approval /\ d.risk_level = "low"
         /\ d.reasons = << <<"no_sensitive_content">> >>

\* classify returned for a text in which no rule found anything
C27_Witness ==
  /\ cl_call.made /\ ~cl_call.raised
  /\ cl_call.text.words = {"read", "report"}
  /\ Len(Recorded.reasons) = 0
  /\ ~cl_call.requires_approval
  /\ cl_call.reasons = << <<"no_sensitive_content">> >>

\* low < medium < high
Rank(risk_level) ==
  CASE risk_level = "low" -> 0
    [] risk_level = "medium" -> 1
    [] risk_level = "high" -> 2

\* C28: within one classify call the risk level never decreases from one
\* rule to the next: once the amount rule or a keyword rule has set medium
\* or high, no later rule (keyword category, unknown recipient, file
\* deletion, social media) lowers it.
C28_RiskNeverDecreases ==
  cl_call.made /\ ~cl_call.raised =>
    /\ \A i \in 1..(Len(cl_call.trace) - 1) :
         Rank(cl_call.trace[i].risk_level)
           <= Rank(cl_call.trace[i + 1].risk_level)
    /\ cl_call.risk_level = cl_call.trace[Len(cl_call.trace)].risk_level

\* the amount rule set high, then the personal keywords and the social
\* media rule, which raise a low risk to medium, were applied
C28_Witness ==
  /\ cl_call.made /\ ~cl_call.raised
  /\ cl_call.trace[2].risk_level = "high"
  /\ "password" \in cl_call.text.words
  /\ cl_call.action_type = "social_post"
  /\ \E i \in DOMAIN cl_call.reasons :
       cl_call.reasons[i] = <<"category", "personal">>
  /\ \E i \in DOMAIN cl_call.reasons : cl_call.reasons[i] = <<"social_media">>
  /\ cl_call.risk_level = "high"

\* classify detected an action type for a text with no dollar amount and no
\* sensitive keyword and a metadata map with no recipient
OnlyActionType ==
  /\ cl_call.made /\ ~cl_call.raised
  /\ Len(cl_call.text.amounts) = 0
  /\ \A i \in DOMAIN Categories :
       ~AnyIn(SENSITIVE_KEYWORDS(Categories[i]), cl_call.text)
  /\ cl_call.metadata.to = "" /\ cl_call.metadata.from = ""

\* C29 as stated: for a text with no dollar amount and no sensitive keyword,
\* and metadata with no recipient, classify returns requires_approval =
\* false for every detected action type other than delete_file.
C29_OnlyDeleteForces ==
  OnlyActionType /\ cl_call.action_type # "delete_file" =>
    ~cl_call.requires_approval

\* C29, amended: for a text with no dollar amount and no sensitive keyword,
\* and metadata with no recipient, classify returns requires_approval =
\* false for every detected action type other than delete_file, social_post
\* and social_reply, and requires_approval = true for these three.
C29_DeleteAndSocialForce ==
  OnlyActionType =>
    (cl_call.requires_approval <=>
       cl_call.action_type \in {"delete_file", "social_post", "social_reply"})

\* a text that asks for a meeting only: action type schedule, auto-approved
C29_Witness ==
  /\ OnlyActionType
  /\ cl_call.text.words = {"meeting"}
  /\ cl_call.action_type = "schedule"
  /\ ~cl_call.requires_approval

\* the header of the file cannot be read as a key/value map
Malformed(content) == content.header \in { "scalar", "invalid" }

\* C30: a task whose header is malformed is still processed: a Task
\* Processor scan on which the file system raises no error classifies it on
\* its entire content with empty metadata and routes it out of Needs_Action;
\* it is not left behind in Needs_Action because of its header.
C30_MalformedHeaderProcessed ==
  [][ ProcessAll /\ faults' = faults =>
        \A n \in Files(vault, NEEDS_ACTION) :
          Malformed(vault[NEEDS_ACTION][n]) =>
            /\ n \notin Files(vault', NEEDS_ACTION)
            /\ LET content == vault[NEEDS_ACTION][n]
                   whole == [content.body EXCEPT
                               !.words = @ \cup content.header_words]
                   decision == classify(whole, NoMetadata)
               IN  IF decision.requires_approval
                   THEN n \in Files(vault', PENDING_APPROVAL)
                   ELSE n \in Files(vault', APPROVED)
    ]_vars

\* C31: when the file system raises while the Task Processor routes a task
\* (moving the task, copying its plan), the error is logged and the task is
\* still in Needs_Action for the next scan: it is not relocated without its
\* plan or without its routing event.
C31_RoutingErrorLeavesTask ==
  [][ \A e \in NewEvents :
        e.action_type = "task_process_error" =>
          /\ e.name \in Files(vault', NEEDS_ACTION)
          /\ vault'[NEEDS_ACTION][e.name] = vault[NEEDS_ACTION][e.name]
          /\ \A d \in { PENDING_APPROVAL, APPROVED } :
                e.name \in Files(vault', d) =>
                  /\ e.name \in Files(vault, d)
                  /\ vault'[d][e.name] = vault[d][e.name] ]_vars

\* C32: task identity is unique within the store: the filename (timestamp +
\* sanitized title) that create_task_file gives a new task differs from the
\* filename of every record already in the store, so that creating a task
\* never overwrites an existing task record.
C32_UniqueFilename ==
  [][ \A e \in NewEvents :
        e.action_type = "task_created" =>
          \A d \in Folders : e.name \notin Files(vault, d) ]_vars

\* C33: when the system is started with --dry-run, dry-run mode is in
\* effect for the whole run, whatever the environment configured:
\* settings.dry_run is true, approving a task performs no external action,
\* and the approved task still goes from Approved to Done.
C33_DryRunFlag ==
  [][ orch'.dry_run_flag =>
        /\ orch'.settings.dry_run
        /\ orch'.external_actions = 0
        /\ \A c \in NewCallbacks :
              faults' = faults =>
                /\ c.name \notin Files(vault', APPROVED)
                /\ DoneName(now, "completed", c.name) \in Files(vault', DONE)
    ]_vars

\* C34: the Orchestrator wires the Watchdog into its lifecycle: after
\* setup() the status of get_status() has a watchdog entry; after start()
\* is_running is true and the status lists at least one watcher and a
\* non-null watchdog; after stop() is_running is false.
C34_WatchdogWired ==
  /\ orch.pc \notin { "none", "main" } => "watchdog" \in StatusKeys
  /\ orch.pc \in { "started", "loop" } =>
        /\ get_status.is_running
        /\ Len(get_status.watchers) >= 1
  /\ orch.pc = "stopped" => ~get_status.is_running

\* C35: for each approved task process_approvals emits the approved event,
\* then calls the registered callback, then relocates the task and its plan
\* into Done under a timestamp-prefixed name; a callback that raises does
\* not prevent the relocation, and the callback is not called again.
C35_EventCallbackRelocate ==
  [][ /\ \A e \in NewEvents :
            e.action_type = "task_approved" =>
              /\ NewCallbacks = {}
              /\ e.name \in Files(vault', APPROVED)
      /\ \A c \in NewCallbacks :
            /\ \E e \in BagToSet(audit) :
                  e.action_type = "task_approved" /\ e.name = c.name
            /\ c.name \in Files(vault', APPROVED)
            /\ handling'.pc = "move"
            /\ handling'.tasks[handling'.i] = c.name
      /\ (handling.pc = "move" /\ handling' # handling
            /\ faults' = faults) =>
            /\ \E c \in BagToSet(callbacks) : c.name = HandledTask
            /\ HandledTask \notin Files(vault', APPROVED)
            /\ DoneName(now, "completed", HandledTask) \in Files(vault', DONE)
            /\ \A p \in PlanFiles(vault, APPROVED, HandledTask) :
                  /\ p \notin Files(vault', APPROVED)
                  /\ DoneName(now, "completed", p) \in Files(vault', DONE)
      /\ \A c \in BagToSet(callbacks') : CopiesIn(c, callbacks') <= 1
    ]_vars

\* a task whose callback raised is in Done with its plan, and its callback
\* was called once
C35_Witness ==
  \E n \in handling.raised_names : \E t \in 0 .. MaxClock :
     /\ DoneName(t, "completed", n) \in Files(vault, DONE)
     /\ \E p \in Files(vault, DONE) :
           vault[DONE][p].kind = "plan" /\ vault[DONE][p].task = n
     /\ \E c \in BagToSet(callbacks) :
           c.name = n /\ CopiesIn(c, callbacks) = 1

\* the approval requests of paused steps that the step handled in Approved
HandledStepApprovals ==
  { c.name : c \in { x \in NewCallbacks :
                       /\ x.name \in Files(vault, APPROVED)
                       /\ vault[APPROVED][x.name].kind = "approval" } }

\* C36: when the approval request of a paused multi-step step is approved
\* and handled by the Approval Handler, advance is re-invoked for that
\* task, so the task leaves paused; the request is not merely archived
\* into Done while the multi-step task stays paused.
C36_StepApprovalAdvances ==
  [][ \A n \in HandledStepApprovals :
        LET task_id == vault[APPROVED][n].multistep_id
        IN  (task_id \in DOMAIN _tasks /\ _tasks[task_id].status = "paused")
              => _tasks'[task_id].status # "paused" ]_vars

\* the task records of the store that are written in full
FullRecords ==
  UNION { { vault[d][n] : n \in { x \in Files(vault, d) :
                                    /\ vault[d][x].kind = "task"
                                    /\ vault[d][x].header = "yaml" } } :
          d \in Folders }

\* the plans of the store
PlanRecords ==
  UNION { { vault[d][n] : n \in { x \in Files(vault, d) :
                                    vault[d][x].kind = "plan" } } :
          d \in Folders }

\* C37: the Task Processor classifies a task on its complete content only:
\* a scan that runs while a watcher is still writing a record never
\* classifies and relocates the partial record, so the decision in the plan
\* of a task is the decision for its full body.
C37_DecisionOnFullBody ==
  /\ \A plan \in PlanRecords : \A task \in FullRecords :
        plan.id = task.id =>
          LET parsed == _parse_task(task)
          IN  plan.requires_approval =
                classify(parsed.body, parsed.metadata).requires_approval
  /\ \A w \in writing :
        \A f \in OpenedFiles(vault, w) : f.folder = NEEDS_ACTION

\* C38: when the process dies at any point of create_task or advance,
\* resume_all at the next start recovers the task in its state before the
\* call or in its state after the call: the crash does not lose the task
\* and does not leave a state file that cannot be loaded.
C38_CrashRecovery ==
  [][ (ms_last.op = "crash" /\ ms_last'.op = "resume_all") =>
        \/ _tasks' = ms_last.before
        \/ _tasks' = ms_last.after ]_vars

\* C39: every record without the plan marker that is placed in Approved is
\* relocated to Done by repeated process_approvals calls, also when its
\* filename is the filename of a record processed earlier by the same
\* process.  In the form a finite run refutes: as long as no file system
\* error has happened, each such record in Approved is one that the next
\* scan_approved returns.
C39_ApprovedReachesDone ==
  faults = 0 =>
    \A n \in HumanFiles(vault, APPROVED) :
      n \in scan_approved(vault, processed_approvals)

\* C40: Orchestrator.start returns after it has started the watchers and
\* the scheduler, and run then executes a processing cycle every
\* process_interval while the orchestrator is running, with the filesystem
\* watcher alone and with the Gmail watcher too: while is_running, no more
\* than process_interval seconds pass since start() or since the last
\* cycle, and once start has returned the scheduler is started.
C40_CycleEveryInterval ==
  orch.is_running =>
    /\ now - (IF orch.pc = "loop" THEN orch.last_process_time
              ELSE orch.start_time) <= process_interval
    /\ orch.pc \in { "started", "loop" } => orch.scheduler = "started"

====
